---- MODULE Spec2Model ----
(***************************************************************************)
(* State-machine model of the Mendix Platform SDK client                   *)
(* (src/mendix-platform-sdk.ts): the request builder, the rest.js          *)
(* interceptor chain (status classification, result extraction), the       *)
(* job poll loop of _awaitJobResult and the three facade operations.       *)
(*                                                                         *)
(* JavaScript values are records tagged by a "type" field, so that any two *)
(* values can be compared.  An XML response body is kept as the tree       *)
(* xml2js would build from it: every element name maps to the array of     *)
(* its text values, <<>> when the element does not occur.                  *)
(***************************************************************************)
EXTENDS Integers, Sequences, FiniteSets, TLC

\* Largest number of status requests one poll loop is followed through.
MaxPolls == 3

\* The operations (promises returned to a caller) that are followed.
Ops == {1, 2}

-----------------------------------------------------------------------------
(* JavaScript values *)

Undefined == [type |-> "undefined"]
Null == [type |-> "null"]
NaN == [type |-> "NaN"]
Str(s) == [type |-> "string", text |-> s]
Num(n) == [type |-> "number", val |-> n]
ErrorObject(msg) == [type |-> "Error", name |-> "Error", message |-> Str(msg)]

\* `${v}`: the text a template literal renders for a value.
Render(v) ==
    CASE v.type = "string" -> v.text
      [] v.type = "number" -> ToString(v.val)
      [] v.type = "Error" -> v.name \o ": " \o v.message.text
      [] v.type = "undefined" -> "undefined"
      [] v.type = "null" -> "null"
      [] v.type = "NaN" -> "NaN"
      [] OTHER -> "[object Object]"

\* if (v): JavaScript truthiness.
Truthy(v) ==
    /\ v.type \notin {"undefined", "null", "NaN"}
    /\ v # Str("")
    /\ v # Num(0)

\* lodash _.isEmpty: null, undefined, numbers and "" are empty; an object
\* with own properties and a non-empty string are not.
isEmpty(v) ==
    \/ v.type \in {"undefined", "null", "NaN", "number"}
    \/ v = Str("")

ParseError(err) == [type |-> "ParseError", message |-> err]
EmptyError(msg) == [type |-> "EmptyError", message |-> Str(msg)]

\* typeof v: an instance of a class is an "object", whatever its class.
typeof(v) ==
    CASE v.type = "string" -> "string"
      [] v.type \in {"number", "NaN"} -> "number"
      [] v.type = "undefined" -> "undefined"
      [] OTHER -> "object"

\* rejectWithError(error, reject): the reason handed to reject.  No function
\* of the module calls it.
rejectWithError(error) ==
    LET errorType == typeof(error)
    IN  CASE errorType = "ParseError" ->
               Str("Response parsing error: " \o Render(error.message)
                   \o ". Please consult https://mxforum.mendix.com/")
          [] errorType = "EmptyError" ->
               Str("Empty response error: " \o Render(error.message)
                   \o ". Please consult https://mxforum.mendix.com/")
          [] OTHER ->
               Str("Error: " \o Render(error.message)
                   \o ". Please consult https://mxforum.mendix.com/")

JobState ==
    [Running |-> Num(0), Completed |-> Num(1), Failed |-> Num(2)]

\* JobState[key] reading a number written as text as that number.
JobStateLookup_numeric(key) ==
    CASE key = Str("Running") -> JobState.Running
      [] key = Str("Completed") -> JobState.Completed
      [] key = Str("Failed") -> JobState.Failed
      [] key = Str("0") -> JobState.Running
      [] key = Str("1") -> JobState.Completed
      [] key = Str("2") -> JobState.Failed
      [] OTHER -> Undefined

\* JobState[key]: the enum object maps names to numbers and numbers back to
\* names; any other key gives undefined.
JobStateLookup(key) ==
    CASE key = Str("Running") -> JobState.Running
      [] key = Str("Completed") -> JobState.Completed
      [] key = Str("Failed") -> JobState.Failed
      [] key = Str("0") -> Str("Running")
      [] key = Str("1") -> Str("Completed")
      [] key = Str("2") -> Str("Failed")
      [] OTHER -> Undefined

-----------------------------------------------------------------------------
(* Program constants *)

PROJECTS_API_PATH == "/ws/ProjectsAPI/9/soap1"
HTTP_STATUS_OK_RESPONSE_CODE == 200
HTTP_STATUS_WS_ERROR_RESPONSE_CODE == 500
DEFAULT_PROJECTSAPI_ENDPOINT == "https://sprintr.home.mendix.com"

\* path.join(__dirname, 'templates', filename): the templates are looked up
\* beside the compiled module, wherever the package is installed.
_templatePath(filename) == "{__dirname}/templates/" \o filename

CreateNewAppXml == _templatePath("CreateNewApp.xml")
CreateOnlineWorkingCopyXml == _templatePath("CreateOnlineWorkingCopy.xml")
CommitWorkingCopyChangesXml == _templatePath("CommitWorkingCopyChanges.xml")
RetrieveJobStatusXml == _templatePath("RetrieveJobStatus.xml")

\* Client configuration fixed by the constructor.
Username == Str("richard.ford51@example.com")
ApiKey == Str("364fbe6d")

-----------------------------------------------------------------------------
(* XML documents and the responses of the service *)

NoElems ==
    [JobId |-> <<>>, StartTime |-> <<>>, EndTime |-> <<>>, State |-> <<>>,
     Result |-> <<>>, ErrorMessage |-> <<>>, faultstring |-> <<>>]

\* A response body that is XML text; wellFormed says whether xml2js can
\* parse it, elems is the tree it then builds.
Xml(elems) == [type |-> "xml", wellFormed |-> TRUE, elems |-> elems]
Malformed == [type |-> "xml", wellFormed |-> FALSE, elems |-> NoElems]

FaultDocs ==
    {Xml([NoElems EXCEPT !.faultstring = f]) :
        f \in {<<"">>, <<"Project does not exist">>}}

SubmissionDocs ==
    {Xml([NoElems EXCEPT !.Result = r]) :
        r \in {<<>>, <<"">>, <<"J1">>, <<"J2">>}}

StatusDocs ==
    {Xml([NoElems EXCEPT !.JobId = <<"J1">>, !.State = s, !.Result = r,
                         !.ErrorMessage = m]) :
        s \in {<<>>, <<"Running">>, <<"Completed">>, <<"Failed">>, <<"1">>},
        r \in {<<>>, <<"app-42">>, <<"3">>},
        m \in {<<>>, <<"No such revision">>}}

\* The bodies a submission is answered with; the elements a status document
\* has besides Result are not read from a submission's response.
SubmissionBodies == {Str(""), Malformed} \cup FaultDocs \cup SubmissionDocs

\* The bodies a status request is answered with.
StatusBodies == SubmissionBodies \cup StatusDocs

Status(code) == [type |-> "status", code |-> code]

StatusMessage(code) ==
    CASE code = 200 -> "OK"
      [] code = 500 -> "Internal Server Error"
      [] code = 404 -> "Not Found"
      [] code = 503 -> "Service Unavailable"
      [] OTHER -> ""

\* What the transport hands to the interceptor chain: error is set when the
\* exchange failed, status is absent or carries the code, statusMessage is
\* response.raw.response.statusMessage.
Response(error, status, entity) ==
    [type |-> "response", error |-> error, status |-> status,
     statusMessage |-> IF status.type = "status"
                       THEN StatusMessage(status.code) ELSE "",
     headers |-> "Content-Type: text/xml", entity |-> entity]

TransportErrors == {ErrorObject("getaddrinfo ENOTFOUND")}

\* The responses with one of `bodies` under status 200.  Under the other
\* statuses the chain reads at most faultstring, so these carry the bodies
\* that differ in it, an empty one and a malformed one; a failed exchange
\* carries an error and whatever else the transport left in the response.
ResponsesWith(bodies) ==
    {Response(Undefined, Status(200), b) : b \in bodies}
    \cup {Response(Undefined, Status(500), b) :
            b \in {Str(""), Malformed, Xml([NoElems EXCEPT !.Result = <<"J1">>])}
                  \cup FaultDocs}
    \cup {Response(Undefined, st, b) :
            st \in {Undefined, Status(404), Status(503)},
            b \in {Str(""), Malformed, Xml([NoElems EXCEPT !.Result = <<"J1">>])}}
    \cup {Response(e, st, b) : e \in TransportErrors,
            st \in {Undefined, Status(200)},
            b \in {Str(""), Xml([NoElems EXCEPT !.Result = <<"J1">>])}}

\* State texts of a status document that are neither "Completed" nor
\* "Failed": the third name of the enum, the enum's numbers as text, other
\* spellings of the names and a name the enum does not have.
OtherStates == {"Running", "0", "1", "2", "completed", "FAILED", "Queued"}

\* Status documents of a job with each of these states, and of a job that
\* has completed or failed.
StateDocs ==
    {Xml([NoElems EXCEPT !.JobId = <<"J1">>, !.State = <<s>>,
                         !.Result = <<"3">>,
                         !.ErrorMessage = <<"No such revision">>]) :
        s \in OtherStates \cup {"Completed", "Failed"}}

\* What the service may answer to a request sent through the given client.
ResponsesTo(client) ==
    IF client = "_parseJobStatus"
    THEN ResponsesWith(StatusBodies \cup StateDocs)
    ELSE ResponsesWith(SubmissionBodies)

Responses == ResponsesWith(StatusBodies)

-----------------------------------------------------------------------------
(* Settled promises *)

Fulfilled(v) == [state |-> "fulfilled", value |-> v]
Rejected(r) == [state |-> "rejected", value |-> r]
Pending == [state |-> "pending", value |-> Undefined]

-----------------------------------------------------------------------------
(* xml2js and jsonpath *)

\* xml2js parseString: calls back with an error for text that is not
\* well-formed, with the tree otherwise.
parseString(xml) ==
    IF xml.type = "xml" /\ xml.wellFormed
    THEN [error |-> Null, result |-> xml.elems]
    ELSE [error |-> ErrorObject("Non-whitespace before first tag."),
          result |-> NoElems]

\* new xml2js.Parser(): the parser keeps the tree of the last document it
\* parsed.
Parser == [type |-> "Parser", resultObject |-> Null]

\* reset() leaving the parser as it is.
reset_keeps(parser) == parser

\* Parser.reset(): the parser is as good as new.
reset(parser) == [parser EXCEPT !.resultObject = Null]

\* Parser.parseString(xml, cb) with the default options: the document is
\* parsed and cb called before parseString returns.  The parser holds the
\* tree once the root element has closed; text that is not well-formed
\* leaves what it held.
Parser_parseString(parser, xml) ==
    LET parsed == parseString(xml)
    IN  IF Truthy(parsed.error) THEN parser
        ELSE [parser EXCEPT !.resultObject =
                 [type |-> "tree", elems |-> parsed.result]]

ElementOf(query) ==
    CASE query = "$..JobId[0]" -> "JobId"
      [] query = "$..StartTime[0]" -> "StartTime"
      [] query = "$..EndTime[0]" -> "EndTime"
      [] query = "$..State[0]" -> "State"
      [] query = "$..Result[0]" -> "Result"
      [] query = "$..ErrorMessage[0]" -> "ErrorMessage"
      [] query = "$..faultstring[0]" -> "faultstring"

\* jsonpath.query(tree, '$..X[0]'): the first value of every X array found.
jsonpath_query(tree, query) == tree[ElementOf(query)]

\* array[0]
First(array) == IF array = <<>> THEN Undefined ELSE Str(array[1])

\* this._xmlParser.reset(); this._xmlParser.parseString(xml, ...): what the
\* client's parser holds after _parseAndQuery has run on xml.
_xmlParser(parser, xml) == Parser_parseString(reset(parser), xml)

\* The promise of _parseAndQuery; the parser is reset before it parses and
\* calls back before it returns, so nothing the parser held is read.
_parseAndQuery(xml, query) ==
    LET parsed == parseString(xml)
        parseResult == First(jsonpath_query(parsed.result, query))
    IN  IF Truthy(parsed.error)
        THEN Rejected(ParseError(parsed.error))
        ELSE IF isEmpty(parseResult)
             THEN Rejected(EmptyError("Query " \o query \o " on "
                      \o Render(parseResult) \o " does not give any result"))
             ELSE Fulfilled(parseResult)

\* _parseJobResult reading the job's result from the wrong element.
_parseJobResult_wrongElement(parsed) ==
    [type |-> "JobResult",
     jobId |-> First(jsonpath_query(parsed, "$..JobId[0]")),
     startTime |-> First(jsonpath_query(parsed, "$..StartTime[0]")),
     endTime |-> First(jsonpath_query(parsed, "$..EndTime[0]")),
     state |-> First(jsonpath_query(parsed, "$..State[0]")),
     result |-> First(jsonpath_query(parsed, "$..JobId[0]")),
     errorMessage |-> First(jsonpath_query(parsed, "$..ErrorMessage[0]"))]

_parseJobResult(parsed) ==
    [type |-> "JobResult",
     jobId |-> First(jsonpath_query(parsed, "$..JobId[0]")),
     startTime |-> First(jsonpath_query(parsed, "$..StartTime[0]")),
     endTime |-> First(jsonpath_query(parsed, "$..EndTime[0]")),
     state |-> First(jsonpath_query(parsed, "$..State[0]")),
     result |-> First(jsonpath_query(parsed, "$..Result[0]")),
     errorMessage |-> First(jsonpath_query(parsed, "$..ErrorMessage[0]"))]

-----------------------------------------------------------------------------
(* Request builder *)

\* The error fs.readFileSync throws for a file it cannot read.
ENOENT(template) ==
    ErrorObject("ENOENT: no such file or directory, open '" \o template \o "'")

\* fs.readFileSync(template, 'utf8'): the file is read anew at every call,
\* so each call returns the file's text or throws (the file is missing from
\* the installed package, or cannot be opened).  A call that threw leaves no
\* value.
readFileSync(template) ==
    {[thrown |-> Null, value |-> Str(template)],
     [thrown |-> ENOENT(template), value |-> Undefined]}

\* _.template(fs.readFileSync(template))(data): the rendered payload is the
\* template with the bindings substituted, kept as that pair; an exception
\* of readFileSync passes through.
_compilePayload(file, data) ==
    IF file.thrown # Null
    THEN file
    ELSE [thrown |-> Null,
          value |-> [template |-> file.value.text, data |-> data]]

_createRequestContent(file, data) ==
    LET payload == _compilePayload(file, data)
    IN  IF payload.thrown # Null
        THEN payload
        ELSE [thrown |-> Null,
              value |-> [path |-> PROJECTS_API_PATH,
                         method |-> "POST",
                         headers |-> [ContentType |-> "text/xml;charset=UTF-8"],
                         mixin |-> {},
                         entity |-> payload.value]]

\* pathPrefix leaving the path as it is.
pathPrefix_missing(request, prefix) == request

\* rest/interceptor/pathPrefix
pathPrefix(request, prefix) == [request EXCEPT !.path = prefix \o @]

-----------------------------------------------------------------------------
(* Interceptors: each maps a response to the promise its handler returns *)

\* `Connection error: ${response.error}`
ConnectionErrorMessage(response) ==
    Str("Connection error: " \o Render(response.error))

\* ServiceFaultMessage without the caller's context.
ServiceFaultMessage_noContext(errorMessage, cause) == Str(Render(cause))

\* `${errorMessage}: ${cause}`
ServiceFaultMessage(errorMessage, cause) ==
    Str(errorMessage \o ": " \o Render(cause))

\* UnexpectedCodeMessage without the server's status message.
UnexpectedCodeMessage_codeOnly(response) ==
    Str("Unexpected HTTP response code: " \o ToString(response.status.code)
        \o ". Please retry after a few minutes. If the problem persists, "
        \o "please consult https://mxforum.mendix.com")

\* `Unexpected HTTP response code: ${code} ${statusMessage}. ...`
UnexpectedCodeMessage(response) ==
    Str("Unexpected HTTP response code: "
        \o ToString(response.status.code) \o " " \o response.statusMessage
        \o ". Please retry after a few minutes. If the problem persists, "
        \o "please consult https://mxforum.mendix.com")

\* _createHttpErrorCodeInterceptor looking at the status code before
\* response.error.
_createHttpErrorCodeInterceptor_statusFirst(errorMessage, response) ==
    IF ~isEmpty(response.status) /\ ~isEmpty(response.entity)
       /\ response.status.code = HTTP_STATUS_OK_RESPONSE_CODE
    THEN Fulfilled(response)
    ELSE IF Truthy(response.error)
    THEN Rejected(ConnectionErrorMessage(response))
    ELSE IF isEmpty(response.status) \/ isEmpty(response.entity)
    THEN Rejected(Str("Error: invalid HTTP response"))
    ELSE IF response.status.code = HTTP_STATUS_WS_ERROR_RESPONSE_CODE
    THEN LET cause == _parseAndQuery(response.entity, "$..faultstring[0]")
         IN  IF cause.state = "fulfilled"
             THEN Rejected(ServiceFaultMessage(errorMessage, cause.value))
             ELSE Rejected(cause.value)
    ELSE Rejected(UnexpectedCodeMessage(response))

\* _createHttpErrorCodeInterceptor testing for 200 before testing for an
\* empty body.
_createHttpErrorCodeInterceptor_okFirst(errorMessage, response) ==
    IF Truthy(response.error)
    THEN Rejected(ConnectionErrorMessage(response))
    ELSE IF ~isEmpty(response.status)
            /\ response.status.code = HTTP_STATUS_OK_RESPONSE_CODE
    THEN Fulfilled(response)
    ELSE IF isEmpty(response.status) \/ isEmpty(response.entity)
    THEN Rejected(Str("Error: invalid HTTP response"))
    ELSE IF response.status.code = HTTP_STATUS_WS_ERROR_RESPONSE_CODE
    THEN LET cause == _parseAndQuery(response.entity, "$..faultstring[0]")
         IN  IF cause.state = "fulfilled"
             THEN Rejected(ServiceFaultMessage(errorMessage, cause.value))
             ELSE Rejected(cause.value)
    ELSE Rejected(UnexpectedCodeMessage(response))

\* _createHttpErrorCodeInterceptor resolving for every status but 500.
_createHttpErrorCodeInterceptor_not500(errorMessage, response) ==
    IF Truthy(response.error)
    THEN Rejected(ConnectionErrorMessage(response))
    ELSE IF isEmpty(response.status) \/ isEmpty(response.entity)
    THEN Rejected(Str("Error: invalid HTTP response"))
    ELSE IF response.status.code # HTTP_STATUS_WS_ERROR_RESPONSE_CODE
    THEN Fulfilled(response)
    ELSE LET cause == _parseAndQuery(response.entity, "$..faultstring[0]")
         IN  IF cause.state = "fulfilled"
             THEN Rejected(ServiceFaultMessage(errorMessage, cause.value))
             ELSE Rejected(cause.value)

\* _createHttpErrorCodeInterceptor putting the context before an extraction
\* error as it does before a fault string.
_createHttpErrorCodeInterceptor_wrapsError(errorMessage, response) ==
    IF Truthy(response.error)
    THEN Rejected(ConnectionErrorMessage(response))
    ELSE IF isEmpty(response.status) \/ isEmpty(response.entity)
    THEN Rejected(Str("Error: invalid HTTP response"))
    ELSE IF response.status.code = HTTP_STATUS_OK_RESPONSE_CODE
    THEN Fulfilled(response)
    ELSE IF response.status.code = HTTP_STATUS_WS_ERROR_RESPONSE_CODE
    THEN LET cause == _parseAndQuery(response.entity, "$..faultstring[0]")
         IN  IF cause.state = "fulfilled"
             THEN Rejected(ServiceFaultMessage(errorMessage, cause.value))
             ELSE Rejected(Str(errorMessage \o ": " \o Render(cause.value)))
    ELSE Rejected(UnexpectedCodeMessage(response))

_createHttpErrorCodeInterceptor(errorMessage, response) ==
    IF Truthy(response.error)
    THEN Rejected(ConnectionErrorMessage(response))
    ELSE IF isEmpty(response.status) \/ isEmpty(response.entity)
    THEN Rejected(Str("Error: invalid HTTP response"))
    ELSE IF response.status.code = HTTP_STATUS_OK_RESPONSE_CODE
    THEN Fulfilled(response)
    ELSE IF response.status.code = HTTP_STATUS_WS_ERROR_RESPONSE_CODE
    THEN LET cause == _parseAndQuery(response.entity, "$..faultstring[0]")
         IN  IF cause.state = "fulfilled"
             THEN Rejected(ServiceFaultMessage(errorMessage, cause.value))
             ELSE Rejected(cause.value)
    ELSE Rejected(UnexpectedCodeMessage(response))

\* _parseResult leaving response.entity as it was.
_parseResult_keepsBody(response) ==
    IF isEmpty(response.entity)
    THEN Rejected(Str("Error: HTTP response entity missing"))
    ELSE LET result == _parseAndQuery(response.entity, "$..Result[0]")
         IN  IF result.state = "fulfilled" THEN Fulfilled(response) ELSE result

_parseResult(response) ==
    IF isEmpty(response.entity)
    THEN Rejected(Str("Error: HTTP response entity missing"))
    ELSE LET result == _parseAndQuery(response.entity, "$..Result[0]")
         IN  IF result.state = "fulfilled"
             THEN Fulfilled([response EXCEPT !.entity = result.value])
             ELSE result

_parseJobStatus(response) ==
    IF isEmpty(response.entity)
    THEN Rejected(Str("Error: HTTP response entity missing"))
    ELSE LET parsed == parseString(response.entity)
         IN  IF Truthy(parsed.error)
             THEN Rejected(parsed.error)
             ELSE Fulfilled([response EXCEPT
                                !.entity = _parseJobResult(parsed.result)])

-----------------------------------------------------------------------------
(* Domain objects *)

Project(id, name) == [type |-> "Project", id |-> id, name |-> name]
Branch(project, name) == [type |-> "Branch", project |-> project, name |-> name]
Revision(num, branch) == [type |-> "Revision", num |-> num, branch |-> branch]
IModel(id) == [type |-> "IModel", id |-> id]
OnlineWorkingCopy(id, sourceRevision, store) ==
    [type |-> "OnlineWorkingCopy", id |-> id,
     sourceRevision |-> sourceRevision, model |-> store]

\* OnlineWorkingCopy.project()
ProjectOf(workingCopy) == workingCopy.sourceRevision.branch.project

\* parseInt: the number a text of digits denotes, NaN for anything else.
parseInt(v) ==
    CASE v = Str("3") -> Num(3)
      [] v = Str("42") -> Num(42)
      [] OTHER -> NaN

-----------------------------------------------------------------------------
(* The client *)

DEFAULT_MODELAPI_ENDPOINT == "https://model-api.cfapps.io"

\* No client: `new MendixSdkClient(...)` has not been evaluated.
NoClient == [type |-> "none"]

\* new MendixSdkClient(username, apikey, password, openid,
\* projectsApiEndpoint, modelApiEndpoint): what the constructor leaves
\* behind.  args are the arguments it was called with, thrown the error it
\* threw (Null when it returned), created the collaborating clients it
\* constructed, in order.  The constructor of ModelSdkClient belongs to
\* another package and is taken to return.
MendixSdkClient(username, apikey, password, openid, projectsApiEndpoint, modelApiEndpoint) ==
    LET args == [username |-> username, apikey |-> apikey,
                 password |-> password, openid |-> openid]
        credentials ==
            IF Truthy(apikey)
            THEN [username |-> username, apikey |-> apikey]
            ELSE [username |-> username, password |-> password,
                  openid |-> openid]
    IN  IF Truthy(apikey) \/ (Truthy(password) /\ Truthy(openid))
        THEN [type |-> "MendixSdkClient", args |-> args, thrown |-> Null,
              created |-> <<"ModelSdkClient", "PlatformSdkClient">>,
              model |-> [credentials |-> credentials,
                         endPoint |-> IF Truthy(modelApiEndpoint)
                                      THEN modelApiEndpoint.text
                                      ELSE DEFAULT_MODELAPI_ENDPOINT],
              platform |-> [username |-> username, apikey |-> apikey,
                            projectsApiEndpoint |->
                                IF Truthy(projectsApiEndpoint)
                                THEN projectsApiEndpoint.text
                                ELSE DEFAULT_PROJECTSAPI_ENDPOINT]]
        ELSE [type |-> "none", args |-> args,
              thrown |-> ErrorObject("Incomplete credentials"),
              created |-> <<>>]

-----------------------------------------------------------------------------
(* Arguments the operations are called with *)

TheProject == Project(Str("P-1"), Str("Roundtrip"))
MainLine == Branch(TheProject, Null)
ProjectNames == {Str("Foo"), Str("Bar")}
ProjectSummaries == {Str("desc"), Undefined}
RevisionArgs == {Null, Revision(Num(3), MainLine)}
GoodWorkingCopy ==
    OnlineWorkingCopy(Str("wc-1"), Revision(Num(-1), MainLine), IModel(Str("wc-1")))
OrphanWorkingCopy ==
    OnlineWorkingCopy(Str("wc-2"), Revision(Num(-1), Branch(Null, Null)),
                      IModel(Str("wc-2")))
WorkingCopyArgs == {Null, OrphanWorkingCopy, GoodWorkingCopy}
BranchNames == {Null, Str("dev")}
\* Base revisions commitToTeamServer is called with, and those given to
\* OnlineWorkingCopy.commit.
BaseRevisions == {-3, -2, -1, 0, 3}
CommitRevisions == {-2, -1}
CollaboratorErrors == {Str("Model server unavailable")}
UsernameArgs == {Null, Str("some username")}
CredentialArgs == {Undefined, Null, Str(""), Str("secret")}
EndpointArgs == {Undefined, Str("https://projects.example.com")}

-----------------------------------------------------------------------------
(* State *)

VARIABLES
    pc,        \* where each operation stands
    call,      \* the operation called and its arguments
    net,       \* requests handed to the transport, not yet answered
    pipe,      \* the response travelling through the interceptor chain
    timers,    \* armed setTimeout callbacks of _awaitJobResult
    polls,     \* status requests issued so far
    sent,      \* HTTP requests issued so far
    observed,  \* the State values the poll loop has seen, in order
    awaited,   \* the promise of _awaitJobResult
    outcome,   \* the promise returned to the caller
    conn,      \* the working copy's connection to the Model Server
    client,    \* the MendixSdkClient the operations are called on
    thrown,    \* the exception an operation threw instead of rejecting
    xmlParser  \* the _xmlParser of the client's PlatformSdkClient

vars ==
    <<pc, call, net, pipe, timers, polls, sent, observed, awaited, outcome, conn,
      client, thrown, xmlParser>>

NoCall == [kind |-> "none"]

EmptyPipe ==
    [stage |-> "idle", client |-> "", errorMessage |-> "", jobId |-> Undefined,
     request |-> Undefined, received |-> Undefined, response |-> Undefined]

InitFor(active) ==
    /\ pc = [o \in Ops |-> IF o \in active THEN "idle" ELSE "off"]
    /\ call = [o \in Ops |-> NoCall]
    /\ net = [o \in Ops |-> <<>>]
    /\ pipe = [o \in Ops |-> EmptyPipe]
    /\ timers = [o \in Ops |-> <<>>]
    /\ polls = [o \in Ops |-> 0]
    /\ sent = [o \in Ops |-> 0]
    /\ observed = [o \in Ops |-> <<>>]
    /\ awaited = [o \in Ops |-> Pending]
    /\ outcome = [o \in Ops |-> Pending]
    /\ conn = [o \in Ops |-> "none"]
    /\ thrown = [o \in Ops |-> Null]
    /\ xmlParser = Parser

\* The client is constructed with a username and an API key, as the tests
\* construct theirs.
Init ==
    /\ InitFor({1})
    /\ client = MendixSdkClient(Username, ApiKey, Undefined, Undefined,
                                Undefined, Undefined)

\* resolve / reject of a when.js promise: only a pending promise changes.
Settle(promise, settled) ==
    IF promise.state = "pending" THEN settled ELSE promise

\* apiClient(request): the request passes pathPrefix and is handed to the
\* transport; the chain it was sent through waits for the response.
Send(o, request, errorMessage, apiClient, jobId) ==
    /\ net' = [net EXCEPT ![o] = Append(@,
                 [request |-> pathPrefix(request,
                                         client.platform.projectsApiEndpoint),
                  errorMessage |-> errorMessage, client |-> apiClient,
                  jobId |-> jobId])]
    /\ sent' = [sent EXCEPT ![o] = @ + 1]

\* The promise returned to the caller is rejected.
Fail(o, reason) ==
    /\ outcome' = [outcome EXCEPT ![o] = Settle(@, Rejected(reason))]
    /\ pc' = [pc EXCEPT ![o] = "settled"]

\* An exception leaves the operation: out of the call itself (no promise is
\* returned) or out of a timer callback (nothing catches it).
Throw(o, where, error) ==
    /\ thrown' = [thrown EXCEPT ![o] = error]
    /\ pc' = [pc EXCEPT ![o] = where]

\* _awaitJobResult arming its timer with a delay that grows with the polls
\* made.
_awaitJobResult_backoff(o, jobId) ==
    timers' = [timers EXCEPT ![o] =
                  Append(@, [jobId |-> jobId, delay |-> 1000 * (polls[o] + 1)])]

\* setTimeout(..., 1000) of _awaitJobResult: one more callback is armed,
\* for the job id and with the delay it fires after.
_awaitJobResult(o, jobId) ==
    timers' = [timers EXCEPT ![o] = Append(@, [jobId |-> jobId, delay |-> 1000])]

-----------------------------------------------------------------------------
(* The facade: submission *)

createNewApp(o, projectName, projectSummary, file) ==
    /\ pc[o] = "idle"
    /\ call' = [call EXCEPT ![o] =
                  [kind |-> "createNewApp", projectName |-> projectName,
                   projectSummary |-> projectSummary]]
    /\ LET contents == _createRequestContent(file,
                  <<<<"ProjectName", projectName>>,
                    <<"ProjectSummary", projectSummary>>,
                    <<"User", client.platform.username>>,
                    <<"ApiKey", client.platform.apikey>>>>)
       IN  IF contents.thrown # Null
           THEN /\ Throw(o, "thrown", contents.thrown)
                /\ UNCHANGED <<net, sent>>
           ELSE /\ Send(o, contents.value, "Failed to create new app",
                        "_parseResult", Undefined)
                /\ pc' = [pc EXCEPT ![o] = "submitted"]
                /\ UNCHANGED thrown
    /\ UNCHANGED <<pipe, timers, polls, observed, awaited, outcome, conn,
                 client, xmlParser>>

createOnlineWorkingCopy(o, project, revision, file) ==
    /\ pc[o] = "idle"
    /\ call' = [call EXCEPT ![o] =
                  [kind |-> "createOnlineWorkingCopy", project |-> project,
                   revision |-> revision]]
    /\ LET request == _createRequestContent(file,
                  <<<<"Username", client.platform.username>>,
                    <<"ApiKey", client.platform.apikey>>,
                    <<"ProjectId", project.id>>,
                    <<"Branch", IF Truthy(revision)
                                THEN revision.branch.name ELSE Null>>,
                    <<"Revision", IF Truthy(revision)
                                  THEN revision.num ELSE Null>>>>)
       IN  IF request.thrown # Null
           THEN /\ Throw(o, "thrown", request.thrown)
                /\ UNCHANGED <<net, sent>>
           ELSE /\ Send(o, request.value,
                        "Failed to create online working copy",
                        "_parseResult", Undefined)
                /\ pc' = [pc EXCEPT ![o] = "submitted"]
                /\ UNCHANGED thrown
    /\ UNCHANGED <<pipe, timers, polls, observed, awaited, outcome, conn,
                 client, xmlParser>>

\* CommitToTeamServer refusing every negative base revision, HEAD (-1)
\* included.
CommitToTeamServer_rejectsHead(o, workingCopy, branchName, baseRevision, file, inThen) ==
    IF \/ workingCopy.type \in {"null", "undefined"}
       \/ ProjectOf(workingCopy).type \in {"null", "undefined"}
    THEN /\ Fail(o, Str("Working copy is empty or does not contain referral to project"))
         /\ UNCHANGED <<net, sent, thrown>>
    ELSE IF baseRevision < 0
    THEN /\ Fail(o, Str("Invalid base revision " \o ToString(baseRevision)))
         /\ UNCHANGED <<net, sent, thrown>>
    ELSE LET request == _createRequestContent(file,
                    <<<<"Username", client.platform.username>>,
                      <<"ApiKey", client.platform.apikey>>,
                      <<"WorkingCopyId", workingCopy.id>>,
                      <<"ProjectId", ProjectOf(workingCopy).id>>,
                      <<"Branch", branchName>>,
                      <<"Revision", Num(baseRevision)>>>>)
         IN  IF request.thrown # Null /\ inThen
             THEN /\ Fail(o, request.thrown)
                  /\ UNCHANGED <<net, sent, thrown>>
             ELSE IF request.thrown # Null
             THEN /\ Throw(o, "thrown", request.thrown)
                  /\ UNCHANGED <<net, sent, outcome>>
             ELSE /\ Send(o, request.value, "Failed to commit to team server",
                          "_parseResult", Undefined)
                  /\ pc' = [pc EXCEPT ![o] = "submitted"]
                  /\ UNCHANGED <<outcome, thrown>>

\* The body of commitToTeamServer: validation, then the submission.  An
\* exception inside a then-handler (inThen) rejects the promise of the
\* handler; otherwise it leaves the call.
CommitToTeamServer(o, workingCopy, branchName, baseRevision, file, inThen) ==
    IF \/ workingCopy.type \in {"null", "undefined"}
       \/ ProjectOf(workingCopy).type \in {"null", "undefined"}
    THEN /\ Fail(o, Str("Working copy is empty or does not contain referral to project"))
         /\ UNCHANGED <<net, sent, thrown>>
    ELSE IF baseRevision < -1
    THEN /\ Fail(o, Str("Invalid base revision " \o ToString(baseRevision)))
         /\ UNCHANGED <<net, sent, thrown>>
    ELSE LET request == _createRequestContent(file,
                    <<<<"Username", client.platform.username>>,
                      <<"ApiKey", client.platform.apikey>>,
                      <<"WorkingCopyId", workingCopy.id>>,
                      <<"ProjectId", ProjectOf(workingCopy).id>>,
                      <<"Branch", branchName>>,
                      <<"Revision", Num(baseRevision)>>>>)
         IN  IF request.thrown # Null /\ inThen
             THEN /\ Fail(o, request.thrown)
                  /\ UNCHANGED <<net, sent, thrown>>
             ELSE IF request.thrown # Null
             THEN /\ Throw(o, "thrown", request.thrown)
                  /\ UNCHANGED <<net, sent, outcome>>
             ELSE /\ Send(o, request.value, "Failed to commit to team server",
                          "_parseResult", Undefined)
                  /\ pc' = [pc EXCEPT ![o] = "submitted"]
                  /\ UNCHANGED <<outcome, thrown>>

\* A default parameter value: taken when the argument is undefined.
Default(v, d) == IF v = Undefined THEN d ELSE v

commitToTeamServer(o, workingCopy, branchName, baseRevision, file) ==
    /\ pc[o] = "idle"
    /\ call' = [call EXCEPT ![o] =
                  [kind |-> "commitToTeamServer", workingCopy |-> workingCopy,
                   branchName |-> Default(branchName, Null),
                   baseRevision |-> baseRevision]]
    /\ CommitToTeamServer(o, workingCopy, Default(branchName, Null),
                          baseRevision, file, FALSE)
    /\ conn' = [conn EXCEPT ![o] =
                  IF workingCopy.type = "OnlineWorkingCopy" THEN "open" ELSE @]
    /\ UNCHANGED <<pipe, timers, polls, observed, awaited, client, xmlParser>>

\* commit calling commitToTeamServer without closing the connection.
commit_withoutClose(o, workingCopy, branchName, baseRevision) ==
    /\ pc[o] = "idle"
    /\ call' = [call EXCEPT ![o] =
                  [kind |-> "commit", workingCopy |-> workingCopy,
                   branchName |-> Default(branchName, Null),
                   baseRevision |-> baseRevision]]
    /\ conn' = [conn EXCEPT ![o] = "open"]
    /\ \E file \in readFileSync(CommitWorkingCopyChangesXml) :
          CommitToTeamServer(o, workingCopy, Default(branchName, Null),
                             baseRevision, file, TRUE)
    /\ UNCHANGED <<pipe, timers, polls, observed, awaited, client, xmlParser>>

\* OnlineWorkingCopy.commit: closeConnection is called on the model; the
\* commit waits for its success continuation.
commit(o, workingCopy, branchName, baseRevision) ==
    /\ pc[o] = "idle"
    /\ call' = [call EXCEPT ![o] =
                  [kind |-> "commit", workingCopy |-> workingCopy,
                   branchName |-> Default(branchName, Null),
                   baseRevision |-> baseRevision]]
    /\ conn' = [conn EXCEPT ![o] = "open"]
    /\ pc' = [pc EXCEPT ![o] = "closing"]
    /\ UNCHANGED <<net, pipe, timers, polls, sent, observed, awaited, outcome,
                 client, thrown, xmlParser>>

\* The success continuation handed to closeConnection; the then-handler
\* of commit follows and calls commitToTeamServer.
closeConnectionSuccess(o, file) ==
    /\ pc[o] = "closing"
    /\ conn' = [conn EXCEPT ![o] = "closed"]
    /\ CommitToTeamServer(o, call[o].workingCopy, call[o].branchName,
                          call[o].baseRevision, file, TRUE)
    /\ UNCHANGED <<call, pipe, timers, polls, observed, awaited, client, xmlParser>>

closeConnectionError(o, error) ==
    /\ pc[o] = "closing"
    /\ Fail(o, error)
    /\ UNCHANGED <<call, net, pipe, timers, polls, sent, observed, awaited, conn,
                 client, thrown, xmlParser>>

-----------------------------------------------------------------------------
(* The transport and the interceptor chain *)

\* transport handing a response to every operation that has a request in
\* flight, not only to the one whose request it answers.
transport_shared(o, response) ==
    /\ net[o] # <<>>
    /\ response \in ResponsesTo(Head(net[o]).client)
    /\ pipe[o].stage \in {"idle", "done"}
    /\ pipe' = [p \in Ops |->
                  IF net[p] # <<>> /\ pipe[p].stage \in {"idle", "done"}
                  THEN [stage |-> "response", client |-> Head(net[p]).client,
                        errorMessage |-> Head(net[p]).errorMessage,
                        jobId |-> Head(net[p]).jobId,
                        request |-> Head(net[p]).request,
                        received |-> response, response |-> response]
                  ELSE pipe[p]]
    /\ net' = [p \in Ops |->
                 IF net[p] # <<>> /\ pipe[p].stage \in {"idle", "done"}
                 THEN Tail(net[p]) ELSE net[p]]
    /\ UNCHANGED <<pc, call, timers, polls, sent, observed, awaited, outcome, conn,
                 client, thrown, xmlParser>>

\* The transport answers the oldest request of the operation.
transport(o, response) ==
    /\ net[o] # <<>>
    /\ response \in ResponsesTo(Head(net[o]).client)
    /\ pipe[o].stage \in {"idle", "done"}
    /\ pipe' = [pipe EXCEPT ![o] =
                  [stage |-> "response", client |-> Head(net[o]).client,
                   errorMessage |-> Head(net[o]).errorMessage,
                   jobId |-> Head(net[o]).jobId,
                   request |-> Head(net[o]).request,
                   received |-> response, response |-> response]]
    /\ net' = [net EXCEPT ![o] = Tail(@)]
    /\ UNCHANGED <<pc, call, timers, polls, sent, observed, awaited, outcome, conn,
                 client, thrown, xmlParser>>

\* ClientRejected with the rejection handler left out of done(...): the
\* failure settles nothing.
ClientRejected_unhandled(o, reason) ==
    /\ pipe' = [pipe EXCEPT ![o].stage = "done"]
    /\ UNCHANGED <<awaited, outcome, pc, client, thrown>>

\* The client's promise is rejected.  A submission's rejection passes the
\* facade's then-handlers; a status request's rejection rejects the
\* promise of _awaitJobResult (done(..., reject)) and with it the caller's.
ClientRejected(o, reason) ==
    /\ pipe' = [pipe EXCEPT ![o].stage = "done"]
    /\ awaited' = [awaited EXCEPT ![o] =
                     IF pipe[o].client = "_parseJobStatus"
                     THEN Settle(@, Rejected(reason)) ELSE @]
    /\ Fail(o, reason)

\* The response handler of _createHttpErrorCodeInterceptor.  rest.js calls
\* it for a response the transport rejected as well, and then rejects with
\* whatever the handler settles with.
httpErrorCodeInterceptor(o) ==
    /\ pipe[o].stage = "response"
    /\ LET p == _createHttpErrorCodeInterceptor(pipe[o].errorMessage,
                                                pipe[o].response)
       IN  IF p.state = "fulfilled" /\ ~Truthy(pipe[o].received.error)
           THEN /\ pipe' = [pipe EXCEPT ![o].stage = "success",
                                        ![o].response = p.value]
                /\ UNCHANGED <<pc, awaited, outcome>>
           ELSE ClientRejected(o, p.value)
    /\ xmlParser' =
          LET response == pipe[o].response
          IN  IF /\ ~Truthy(response.error)
                 /\ ~(isEmpty(response.status) \/ isEmpty(response.entity))
                 /\ response.status.code = HTTP_STATUS_WS_ERROR_RESPONSE_CODE
              THEN _xmlParser(xmlParser, response.entity)
              ELSE xmlParser
    /\ UNCHANGED <<call, net, timers, polls, sent, observed, conn,
                 client, thrown>>

\* The success handler of _parseResult.
parseResultInterceptor(o) ==
    /\ pipe[o].stage = "success"
    /\ pipe[o].client = "_parseResult"
    /\ LET p == _parseResult(pipe[o].response)
       IN  IF p.state = "fulfilled"
           THEN /\ pipe' = [pipe EXCEPT ![o].stage = "entity",
                                        ![o].response = p.value]
                /\ UNCHANGED <<pc, awaited, outcome>>
           ELSE ClientRejected(o, p.value)
    /\ xmlParser' = IF isEmpty(pipe[o].response.entity) THEN xmlParser
                    ELSE _xmlParser(xmlParser, pipe[o].response.entity)
    /\ UNCHANGED <<call, net, timers, polls, sent, observed, conn,
                 client, thrown>>

\* The success handler of _parseJobStatus.
parseJobStatusInterceptor(o) ==
    /\ pipe[o].stage = "success"
    /\ pipe[o].client = "_parseJobStatus"
    /\ LET p == _parseJobStatus(pipe[o].response)
       IN  IF p.state = "fulfilled"
           THEN /\ pipe' = [pipe EXCEPT ![o].stage = "entity",
                                        ![o].response = p.value]
                /\ UNCHANGED <<pc, awaited, outcome>>
           ELSE ClientRejected(o, p.value)
    /\ UNCHANGED <<call, net, timers, polls, sent, observed, conn,
                 client, thrown, xmlParser>>

-----------------------------------------------------------------------------
(* The poll loop *)

\* submitted polling for a job id of its own instead of the one extracted.
submitted_firstJob(o) ==
    /\ pipe[o].stage = "entity"
    /\ pipe[o].client = "_parseResult"
    /\ _awaitJobResult(o, Str("J1"))
    /\ pipe' = [pipe EXCEPT ![o].stage = "done"]
    /\ pc' = [pc EXCEPT ![o] = "awaiting"]
    /\ UNCHANGED <<call, net, polls, sent, observed, awaited, outcome, conn,
                 client, thrown, xmlParser>>

\* then(response => _awaitJobResult(response.entity)) of the three facade
\* operations: the extracted Result is the job id.
submitted(o) ==
    /\ pipe[o].stage = "entity"
    /\ pipe[o].client = "_parseResult"
    /\ _awaitJobResult(o, pipe[o].response.entity)
    /\ pipe' = [pipe EXCEPT ![o].stage = "done"]
    /\ pc' = [pc EXCEPT ![o] = "awaiting"]
    /\ UNCHANGED <<call, net, polls, sent, observed, awaited, outcome, conn,
                 client, thrown, xmlParser>>

\* pollTimer armed with setInterval: the callback stays armed after firing.
pollTimer_setInterval(o, file) ==
    /\ timers[o] # <<>>
    /\ polls[o] < MaxPolls
    /\ UNCHANGED timers
    /\ LET request == _createRequestContent(file,
                          <<<<"JobId", Head(timers[o]).jobId>>>>)
       IN  IF request.thrown # Null
           THEN /\ Throw(o, "uncaught", request.thrown)
                /\ UNCHANGED <<net, sent, polls>>
           ELSE /\ Send(o, request.value, "Error when retrieving job status",
                        "_parseJobStatus", Head(timers[o]).jobId)
                /\ polls' = [polls EXCEPT ![o] = @ + 1]
                /\ UNCHANGED <<pc, thrown>>
    /\ UNCHANGED <<call, pipe, observed, awaited, outcome, conn, client, xmlParser>>

\* The setTimeout callback of _awaitJobResult: the status request is built
\* for the job id and sent.  The callback runs outside every promise, so an
\* exception of _createRequestContent is caught by nothing.
pollTimer(o, file) ==
    /\ timers[o] # <<>>
    /\ polls[o] < MaxPolls
    /\ timers' = [timers EXCEPT ![o] = Tail(@)]
    /\ LET request == _createRequestContent(file,
                          <<<<"JobId", Head(timers[o]).jobId>>>>)
       IN  IF request.thrown # Null
           THEN /\ Throw(o, "uncaught", request.thrown)
                /\ UNCHANGED <<net, sent, polls>>
           ELSE /\ Send(o, request.value, "Error when retrieving job status",
                        "_parseJobStatus", Head(timers[o]).jobId)
                /\ polls' = [polls EXCEPT ![o] = @ + 1]
                /\ UNCHANGED <<pc, thrown>>
    /\ UNCHANGED <<call, pipe, observed, awaited, outcome, conn, client, xmlParser>>

\* pollDone wrapping the job's error message before rejecting.
pollDone_wrapped(o) ==
    /\ pipe[o].stage = "entity"
    /\ pipe[o].client = "_parseJobStatus"
    /\ pipe' = [pipe EXCEPT ![o].stage = "done"]
    /\ observed' = [observed EXCEPT ![o] = Append(@, pipe[o].response.entity.state)]
    /\ LET entity == pipe[o].response.entity
           state == entity.state
           wrapped == Str("Job failed: " \o Render(entity.errorMessage))
       IN  IF JobStateLookup(state) = JobState.Completed
           THEN /\ awaited' = [awaited EXCEPT ![o] = Settle(@, Fulfilled(entity))]
                /\ UNCHANGED <<timers, pc, outcome>>
           ELSE IF JobStateLookup(state) = JobState.Failed
           THEN /\ awaited' = [awaited EXCEPT ![o] = Settle(@, Rejected(wrapped))]
                /\ Fail(o, wrapped)
                /\ UNCHANGED timers
           ELSE /\ _awaitJobResult(o, pipe[o].jobId)
                /\ UNCHANGED <<awaited, pc, outcome>>
    /\ UNCHANGED <<call, net, polls, sent, conn, client, thrown, xmlParser>>

\* pollDone arming a further poll after a terminal state as well.
pollDone_rearms(o) ==
    /\ pipe[o].stage = "entity"
    /\ pipe[o].client = "_parseJobStatus"
    /\ pipe' = [pipe EXCEPT ![o].stage = "done"]
    /\ observed' = [observed EXCEPT ![o] = Append(@, pipe[o].response.entity.state)]
    /\ _awaitJobResult(o, pipe[o].jobId)
    /\ LET entity == pipe[o].response.entity
           state == entity.state
       IN  IF JobStateLookup(state) = JobState.Completed
           THEN /\ awaited' = [awaited EXCEPT ![o] = Settle(@, Fulfilled(entity))]
                /\ UNCHANGED <<pc, outcome>>
           ELSE IF JobStateLookup(state) = JobState.Failed
           THEN /\ awaited' = [awaited EXCEPT ![o] =
                                 Settle(@, Rejected(entity.errorMessage))]
                /\ Fail(o, entity.errorMessage)
           ELSE UNCHANGED <<awaited, pc, outcome>>
    /\ UNCHANGED <<call, net, polls, sent, conn, client, thrown, xmlParser>>

\* pollDone giving up on a job still running after two status requests.
pollDone_givesUp(o) ==
    /\ pipe[o].stage = "entity"
    /\ pipe[o].client = "_parseJobStatus"
    /\ pipe' = [pipe EXCEPT ![o].stage = "done"]
    /\ observed' = [observed EXCEPT ![o] = Append(@, pipe[o].response.entity.state)]
    /\ LET entity == pipe[o].response.entity
           state == entity.state
       IN  IF JobStateLookup(state) = JobState.Completed
           THEN /\ awaited' = [awaited EXCEPT ![o] = Settle(@, Fulfilled(entity))]
                /\ UNCHANGED <<timers, pc, outcome>>
           ELSE IF JobStateLookup(state) = JobState.Failed
           THEN /\ awaited' = [awaited EXCEPT ![o] =
                                 Settle(@, Rejected(entity.errorMessage))]
                /\ Fail(o, entity.errorMessage)
                /\ UNCHANGED timers
           ELSE IF polls[o] >= 2
           THEN /\ awaited' = [awaited EXCEPT ![o] =
                                 Settle(@, Rejected(Str("Job timed out")))]
                /\ Fail(o, Str("Job timed out"))
                /\ UNCHANGED timers
           ELSE /\ _awaitJobResult(o, pipe[o].jobId)
                /\ UNCHANGED <<awaited, pc, outcome>>
    /\ UNCHANGED <<call, net, polls, sent, conn, client, thrown, xmlParser>>

\* The done callback of the status request.
pollDone(o) ==
    /\ pipe[o].stage = "entity"
    /\ pipe[o].client = "_parseJobStatus"
    /\ pipe' = [pipe EXCEPT ![o].stage = "done"]
    /\ observed' = [observed EXCEPT ![o] = Append(@, pipe[o].response.entity.state)]
    /\ LET entity == pipe[o].response.entity
           state == entity.state
       IN  IF JobStateLookup(state) = JobState.Completed
           THEN /\ awaited' = [awaited EXCEPT ![o] = Settle(@, Fulfilled(entity))]
                /\ UNCHANGED <<timers, pc, outcome>>
           ELSE IF JobStateLookup(state) = JobState.Failed
           THEN /\ awaited' = [awaited EXCEPT ![o] =
                                 Settle(@, Rejected(entity.errorMessage))]
                /\ Fail(o, entity.errorMessage)
                /\ UNCHANGED timers
           ELSE /\ _awaitJobResult(o, pipe[o].jobId)
                /\ UNCHANGED <<awaited, pc, outcome>>
    /\ UNCHANGED <<call, net, polls, sent, conn, client, thrown, xmlParser>>

-----------------------------------------------------------------------------
(* The facade: the job's result *)

\* jobResultThen building the Project with id and name exchanged.
jobResultThen_exchanged(o) ==
    /\ pc[o] = "awaiting"
    /\ awaited[o].state = "fulfilled"
    /\ LET jobResult == awaited[o].value
           num == parseInt(jobResult.result)
       IN  CASE call[o].kind = "createNewApp" ->
                  /\ outcome' = [outcome EXCEPT ![o] = Settle(@, Fulfilled(
                                   Project(call[o].projectName, jobResult.result)))]
                  /\ pc' = [pc EXCEPT ![o] = "settled"]
             [] call[o].kind = "createOnlineWorkingCopy" ->
                  /\ pc' = [pc EXCEPT ![o] = "opening"]
                  /\ UNCHANGED outcome
             [] OTHER ->
                  IF num.type \in {"null", "undefined"}
                  THEN Fail(o, Str("Failed to commit changes to team server: revision "
                          \o Render(num) \o " on branch " \o Render(call[o].branchName)
                          \o ". Reason: returned job id is not a number."))
                  ELSE /\ outcome' = [outcome EXCEPT ![o] = Settle(@, Fulfilled(
                             Revision(num, Branch(ProjectOf(call[o].workingCopy),
                                                  call[o].branchName))))]
                       /\ pc' = [pc EXCEPT ![o] = "settled"]
    /\ UNCHANGED <<call, net, pipe, timers, polls, sent, observed, awaited, conn,
                 client, thrown, xmlParser>>

\* then(jobResult => ...) of the three facade operations.
jobResultThen(o) ==
    /\ pc[o] = "awaiting"
    /\ awaited[o].state = "fulfilled"
    /\ LET jobResult == awaited[o].value
           num == parseInt(jobResult.result)
       IN  CASE call[o].kind = "createNewApp" ->
                  /\ outcome' = [outcome EXCEPT ![o] = Settle(@, Fulfilled(
                                   Project(jobResult.result, call[o].projectName)))]
                  /\ pc' = [pc EXCEPT ![o] = "settled"]
             [] call[o].kind = "createOnlineWorkingCopy" ->
                  /\ pc' = [pc EXCEPT ![o] = "opening"]
                  /\ UNCHANGED outcome
             [] OTHER ->
                  IF num.type \in {"null", "undefined"}
                  THEN Fail(o, Str("Failed to commit changes to team server: revision "
                          \o Render(num) \o " on branch " \o Render(call[o].branchName)
                          \o ". Reason: returned job id is not a number."))
                  ELSE /\ outcome' = [outcome EXCEPT ![o] = Settle(@, Fulfilled(
                             Revision(num, Branch(ProjectOf(call[o].workingCopy),
                                                  call[o].branchName))))]
                       /\ pc' = [pc EXCEPT ![o] = "settled"]
    /\ UNCHANGED <<call, net, pipe, timers, polls, sent, observed, awaited, conn,
                 client, thrown, xmlParser>>

\* openWorkingCopySuccess taking the main line whatever revision was given.
openWorkingCopySuccess_mainLine(o) ==
    /\ pc[o] = "opening"
    /\ LET wcId == awaited[o].value.result
           rev == Revision(Num(-1), Branch(call[o].project, Null))
       IN  outcome' = [outcome EXCEPT ![o] = Settle(@, Fulfilled(
                          OnlineWorkingCopy(wcId, rev, IModel(wcId))))]
    /\ pc' = [pc EXCEPT ![o] = "settled"]
    /\ conn' = [conn EXCEPT ![o] = "open"]
    /\ UNCHANGED <<call, net, pipe, timers, polls, sent, observed, awaited,
                 client, thrown, xmlParser>>

\* The success continuation handed to openWorkingCopy.
openWorkingCopySuccess(o) ==
    /\ pc[o] = "opening"
    /\ LET wcId == awaited[o].value.result
           rev == IF Truthy(call[o].revision) THEN call[o].revision
                  ELSE Revision(Num(-1), Branch(call[o].project, Null))
       IN  outcome' = [outcome EXCEPT ![o] = Settle(@, Fulfilled(
                          OnlineWorkingCopy(wcId, rev, IModel(wcId))))]
    /\ pc' = [pc EXCEPT ![o] = "settled"]
    /\ conn' = [conn EXCEPT ![o] = "open"]
    /\ UNCHANGED <<call, net, pipe, timers, polls, sent, observed, awaited,
                 client, thrown, xmlParser>>

\* The error continuation handed to openWorkingCopy.
openWorkingCopyError(o, error) ==
    /\ pc[o] = "opening"
    /\ Fail(o, error)
    /\ UNCHANGED <<call, net, pipe, timers, polls, sent, observed, awaited, conn,
                 client, thrown, xmlParser>>

-----------------------------------------------------------------------------
(* Specification *)

Next ==
    \E o \in Ops :
        \/ \E n \in ProjectNames, s \in ProjectSummaries,
              f \in readFileSync(CreateNewAppXml) : createNewApp(o, n, s, f)
        \/ \E r \in RevisionArgs, f \in readFileSync(CreateOnlineWorkingCopyXml) :
              createOnlineWorkingCopy(o, TheProject, r, f)
        \/ \E w \in WorkingCopyArgs, b \in BranchNames \cup {Undefined},
              n \in BaseRevisions, f \in readFileSync(CommitWorkingCopyChangesXml) :
              commitToTeamServer(o, w, b, n, f)
        \/ \E n \in CommitRevisions : commit(o, GoodWorkingCopy, Undefined, n)
        \/ \E f \in readFileSync(CommitWorkingCopyChangesXml) :
              closeConnectionSuccess(o, f)
        \/ \E e \in CollaboratorErrors : closeConnectionError(o, e)
        \/ \E r \in Responses : transport(o, r)
        \/ httpErrorCodeInterceptor(o)
        \/ parseResultInterceptor(o)
        \/ parseJobStatusInterceptor(o)
        \/ submitted(o)
        \/ \E f \in readFileSync(RetrieveJobStatusXml) : pollTimer(o, f)
        \/ pollDone(o)
        \/ jobResultThen(o)
        \/ openWorkingCopySuccess(o)
        \/ \E e \in CollaboratorErrors : openWorkingCopyError(o, e)

Spec == Init /\ [][Next]_vars

\* What the event loop and the environment owe an operation: an armed timer
\* fires, a request handed to the transport is answered (with a response or
\* a transport error), a settled promise runs its handlers, and the Model
\* Server collaborator calls one of the continuations it was given.
Fairness ==
    \A o \in Ops :
        /\ WF_vars(\E f \in readFileSync(RetrieveJobStatusXml) : pollTimer(o, f))
        /\ WF_vars(\E r \in Responses : transport(o, r))
        /\ WF_vars(httpErrorCodeInterceptor(o))
        /\ WF_vars(parseResultInterceptor(o))
        /\ WF_vars(parseJobStatusInterceptor(o))
        /\ WF_vars(submitted(o))
        /\ WF_vars(pollDone(o))
        /\ WF_vars(jobResultThen(o))
        /\ WF_vars(openWorkingCopySuccess(o)
                     \/ \E e \in CollaboratorErrors : openWorkingCopyError(o, e))

SpecLive == Init /\ [][Next]_vars /\ Fairness

-----------------------------------------------------------------------------
(* Two operations on one client *)

\* What the service answers while two operations are in flight: to a
\* submission a job id or a body that is not well-formed, to a status
\* request a job state or a service fault.
PairResponsesTo(apiClient) ==
    IF apiClient = "_parseJobStatus"
    THEN {Response(Undefined, Status(200), b) :
            b \in {Xml([NoElems EXCEPT !.JobId = <<"J1">>, !.State = <<"Running">>]),
                   Xml([NoElems EXCEPT !.JobId = <<"J1">>, !.State = <<"Completed">>,
                                       !.Result = <<"3">>]),
                   Xml([NoElems EXCEPT !.JobId = <<"J1">>, !.State = <<"Failed">>,
                                       !.ErrorMessage = <<"No such revision">>])}}
         \cup {Response(Undefined, Status(500),
                   Xml([NoElems EXCEPT !.faultstring = <<"Project does not exist">>]))}
    ELSE {Response(Undefined, Status(200), b) :
            b \in {Malformed,
                   Xml([NoElems EXCEPT !.Result = <<"J1">>]),
                   Xml([NoElems EXCEPT !.Result = <<"J2">>])}}

\* Both operations are called on one client, constructed with an endpoint
\* of its own.
InitPair ==
    /\ InitFor(Ops)
    /\ client = MendixSdkClient(Username, ApiKey, Undefined, Undefined,
                                Str("https://projects.example.com"), Undefined)

\* Either operation creates an app; besides, the first commits through its
\* working copy and the second exposes a working copy or commits through
\* the facade.
NextPair ==
    \E o \in Ops :
        \/ \E f \in readFileSync(CreateNewAppXml) :
              createNewApp(o, Str("Foo"), Undefined, f)
        \/ \E f \in readFileSync(CreateOnlineWorkingCopyXml) :
              o = 2 /\ createOnlineWorkingCopy(o, TheProject, Null, f)
        \/ \E f \in readFileSync(CommitWorkingCopyChangesXml) :
              o = 2 /\ commitToTeamServer(o, GoodWorkingCopy, Str("dev"), 3, f)
        \/ o = 1 /\ commit(o, GoodWorkingCopy, Undefined, -1)
        \/ \E f \in readFileSync(CommitWorkingCopyChangesXml) :
              closeConnectionSuccess(o, f)
        \/ \E e \in CollaboratorErrors : closeConnectionError(o, e)
        \/ \E r \in Responses :
              /\ net[o] # <<>>
              /\ r \in PairResponsesTo(Head(net[o]).client)
              /\ transport(o, r)
        \/ httpErrorCodeInterceptor(o)
        \/ parseResultInterceptor(o)
        \/ parseJobStatusInterceptor(o)
        \/ submitted(o)
        \/ \E f \in readFileSync(RetrieveJobStatusXml) : pollTimer(o, f)
        \/ pollDone(o)
        \/ jobResultThen(o)
        \/ openWorkingCopySuccess(o)
        \/ \E e \in CollaboratorErrors : openWorkingCopyError(o, e)

SpecPair == InitPair /\ [][NextPair]_vars

-----------------------------------------------------------------------------
(* One operation whose job reports every kind of state *)

\* The submission is accepted; each status request is answered with status
\* 200 and a status document of one of the states.
StateResponsesTo(apiClient) ==
    IF apiClient = "_parseJobStatus"
    THEN {Response(Undefined, Status(200), d) : d \in StateDocs}
    ELSE {Response(Undefined, Status(200), Xml([NoElems EXCEPT !.Result = <<"J1">>]))}

NextStates ==
    \E o \in Ops :
        \/ \E f \in readFileSync(CreateNewAppXml) :
              createNewApp(o, Str("Foo"), Undefined, f)
        \/ \E f \in readFileSync(CreateOnlineWorkingCopyXml) :
              createOnlineWorkingCopy(o, TheProject, Null, f)
        \/ \E f \in readFileSync(CommitWorkingCopyChangesXml) :
              commitToTeamServer(o, GoodWorkingCopy, Str("dev"), 3, f)
        \/ commit(o, GoodWorkingCopy, Undefined, -1)
        \/ \E f \in readFileSync(CommitWorkingCopyChangesXml) :
              closeConnectionSuccess(o, f)
        \/ \E e \in CollaboratorErrors : closeConnectionError(o, e)
        \/ /\ net[o] # <<>>
           /\ \E r \in StateResponsesTo(Head(net[o]).client) : transport(o, r)
        \/ httpErrorCodeInterceptor(o)
        \/ parseResultInterceptor(o)
        \/ parseJobStatusInterceptor(o)
        \/ submitted(o)
        \/ \E f \in readFileSync(RetrieveJobStatusXml) : pollTimer(o, f)
        \/ pollDone(o)
        \/ jobResultThen(o)
        \/ openWorkingCopySuccess(o)
        \/ \E e \in CollaboratorErrors : openWorkingCopyError(o, e)

SpecStates == Init /\ [][NextStates]_vars

-----------------------------------------------------------------------------
(* Construction of the client *)

\* new MendixSdkClient(...), evaluated once.
newMendixSdkClient(username, apikey, password, openid, projectsApiEndpoint, modelApiEndpoint) ==
    /\ client = NoClient
    /\ client' = MendixSdkClient(username, apikey, password, openid,
                                 projectsApiEndpoint, modelApiEndpoint)
    /\ UNCHANGED <<pc, call, net, pipe, timers, polls, sent, observed, awaited,
                   outcome, conn, thrown, xmlParser>>

\* Before construction: no client, no operation can be called.
InitClient ==
    /\ InitFor({})
    /\ client = NoClient

NextClient ==
    \E u \in UsernameArgs, k \in CredentialArgs, p \in CredentialArgs,
       i \in CredentialArgs, pe \in EndpointArgs, me \in EndpointArgs :
        newMendixSdkClient(u, k, p, i, pe, me)

SpecClient == InitClient /\ [][NextClient]_vars

-----------------------------------------------------------------------------
(* Properties *)

AllRunning(states) == \A i \in 1..Len(states) : states[i] = Str("Running")
Front(seq) == SubSeq(seq, 1, Len(seq) - 1)
Last(seq) == seq[Len(seq)]

\* The operation's poll loop has seen k >= 0 Running states and then `final`.
SawRunningThen(o, final) ==
    /\ Len(observed[o]) >= 1
    /\ AllRunning(Front(observed[o]))
    /\ Last(observed[o]) = Str(final)

\* The elements of the status response handled last.
LastElems(o) == pipe[o].received.entity.elems

\* Status requests of the operation the transport has not answered yet.
StatusInFlight(o) ==
    Len(SelectSeq(net[o], LAMBDA m : m.client = "_parseJobStatus"))

\* Status responses of the operation inside the interceptor chain.
StatusInChain(o) ==
    IF /\ pipe[o].client = "_parseJobStatus"
       /\ pipe[o].stage \in {"response", "success", "entity"}
    THEN 1 ELSE 0

\* C1: when the status responses are k >= 0 times Running and then Completed
\* with Result r, exactly k+1 status requests have been issued (none is in
\* flight, no timer is armed), the promise of _awaitJobResult is fulfilled
\* with a job result whose result is r, and the caller's promise is not
\* rejected by the poll loop: createNewApp and createOnlineWorkingCopy
\* resolve with r as id.
C1_RoundTrip ==
    \A o \in Ops :
        (SawRunningThen(o, "Completed") /\ LastElems(o).Result # <<>>)
        => /\ polls[o] = Len(observed[o])
           /\ timers[o] = <<>>
           /\ net[o] = <<>>
           /\ awaited[o].state = "fulfilled"
           /\ awaited[o].value.result = Str(LastElems(o).Result[1])
           /\ outcome[o].state = "rejected"
                => /\ call[o].kind = "createOnlineWorkingCopy"
                   /\ outcome[o].value \in CollaboratorErrors
           /\ (outcome[o].state = "fulfilled"
               /\ call[o].kind \in {"createNewApp", "createOnlineWorkingCopy"})
                => outcome[o].value.id = Str(LastElems(o).Result[1])

C1_Witness ==
    \E o \in Ops :
        /\ observed[o] = <<Str("Running"), Str("Running"), Str("Completed")>>
        /\ polls[o] = 3
        /\ outcome[o] = Fulfilled(Project(Str("app-42"), Str("Foo")))

\* C2: when the status responses are k >= 0 times Running and then Failed
\* with ErrorMessage m, the promise of _awaitJobResult and the promise
\* returned by createNewApp, createOnlineWorkingCopy, commitToTeamServer or
\* commit are rejected with the string m itself, after exactly k+1 status
\* requests.
C2_JobFailure ==
    \A o \in Ops :
        (SawRunningThen(o, "Failed") /\ LastElems(o).ErrorMessage # <<>>)
        => /\ polls[o] = Len(observed[o])
           /\ timers[o] = <<>>
           /\ net[o] = <<>>
           /\ awaited[o] = Rejected(Str(LastElems(o).ErrorMessage[1]))
           /\ outcome[o] = Rejected(Str(LastElems(o).ErrorMessage[1]))

C2_Witness ==
    \E o \in Ops :
        /\ call[o].kind = "createOnlineWorkingCopy"
        /\ observed[o] = <<Str("Running"), Str("Failed")>>
        /\ polls[o] = 2
        /\ outcome[o] = Rejected(Str("No such revision"))

\* C3: per operation, armed poll timers, unanswered status requests and
\* status responses not yet seen by the done callback number at most one
\* together, and a status request is issued only when every earlier one
\* has had its response observed.
C3_SequentialPolling ==
    \A o \in Ops :
        /\ Len(timers[o]) + StatusInFlight(o) + StatusInChain(o) <= 1
        /\ polls[o] <= Len(observed[o]) + 1

C3_Witness ==
    \E o \in Ops :
        /\ polls[o] = 2
        /\ StatusInFlight(o) = 1
        /\ observed[o] = <<Str("Running")>>

\* A status response that ends in an error: a failed exchange, an empty
\* status or body, a status other than 200, or a body that does not parse.
PollError(r) ==
    \/ Truthy(r.error)
    \/ isEmpty(r.status)
    \/ isEmpty(r.entity)
    \/ r.status.code # 200
    \/ ~r.entity.wellFormed

\* C4: once a status response has ended in an error, the promise of
\* _awaitJobResult and the caller's promise are rejected with that error,
\* no poll timer is armed and no status request is in flight, and the
\* requests issued are those answered so far, however many Running states
\* were seen before.
C4_PollErrorAborts ==
    \A o \in Ops :
        (/\ pipe[o].client = "_parseJobStatus"
         /\ pipe[o].stage = "done"
         /\ PollError(pipe[o].received))
        => /\ outcome[o].state = "rejected"
           /\ awaited[o] = outcome[o]
           /\ timers[o] = <<>>
           /\ net[o] = <<>>
           /\ polls[o] = Len(observed[o]) + 1
           /\ LET r == pipe[o].received
                  e == outcome[o].value
              IN  IF Truthy(r.error)
                  THEN e = Str("Connection error: Error: " \o r.error.message.text)
                  ELSE IF isEmpty(r.status) \/ isEmpty(r.entity)
                  THEN e = Str("Error: invalid HTTP response")
                  ELSE IF r.status.code = 200
                  THEN e = ErrorObject("Non-whitespace before first tag.")
                  ELSE e.type \in {"string", "ParseError", "EmptyError"}

C4_Witness ==
    \E o \in Ops :
        /\ observed[o] = <<Str("Running")>>
        /\ pipe[o].client = "_parseJobStatus"
        /\ pipe[o].stage = "done"
        /\ pipe[o].received.status = Status(404)
        /\ outcome[o].state = "rejected"
        /\ polls[o] = 2

\* The context text the operation gives its requests.
ContextOf(o) ==
    IF pipe[o].client = "_parseJobStatus"
    THEN "Error when retrieving job status"
    ELSE CASE call[o].kind = "createNewApp" -> "Failed to create new app"
           [] call[o].kind = "createOnlineWorkingCopy" ->
                "Failed to create online working copy"
           [] OTHER -> "Failed to commit to team server"

\* The response is a service fault: no transport error, status 500 and a
\* non-empty, well-formed body with a faultstring element.
IsFault(r) ==
    /\ ~Truthy(r.error)
    /\ ~isEmpty(r.status)
    /\ ~isEmpty(r.entity)
    /\ r.status.code = 500
    /\ r.entity.wellFormed
    /\ r.entity.elems.faultstring # <<>>

FaultString(r) == r.entity.elems.faultstring[1]

\* C5 as stated: every 500 response whose body contains a faultstring f
\* rejects the operation with context + ": " + f.
C5_AsStated ==
    \A o \in Ops :
        (pipe[o].stage = "done" /\ IsFault(pipe[o].received))
        => outcome[o] = Rejected(Str(ContextOf(o) \o ": "
                                     \o FaultString(pipe[o].received)))

\* C5, amended: every 500 response (no transport error, non-empty body)
\* whose body contains a faultstring with non-empty text f rejects the
\* operation with the string context + ": " + f, context being the text of
\* the pipeline the request went through.
C5_ServiceFault ==
    \A o \in Ops :
        (/\ pipe[o].stage = "done"
         /\ IsFault(pipe[o].received)
         /\ FaultString(pipe[o].received) # "")
        => outcome[o] = Rejected(Str(ContextOf(o) \o ": "
                                     \o FaultString(pipe[o].received)))

C5_Witness ==
    \E o \in Ops :
        /\ call[o].kind = "createOnlineWorkingCopy"
        /\ pipe[o].stage = "done"
        /\ pipe[o].received.status = Status(500)
        /\ outcome[o] = Rejected(Str(
             "Failed to create online working copy: Project does not exist"))

\* The message of an unexpected status: code, server message, and the
\* instruction to retry and consult support.
UnexpectedStatusText(r) ==
    "Unexpected HTTP response code: " \o ToString(r.status.code) \o " "
    \o r.statusMessage \o ". Please retry after a few minutes. "
    \o "If the problem persists, please consult https://mxforum.mendix.com"

\* The response came without transport error and with a status code that
\* is neither 200 nor 500.
IsUnexpectedStatus(r) ==
    /\ ~Truthy(r.error)
    /\ r.status.type = "status"
    /\ r.status.code \notin {200, 500}

\* C6 as stated: every response without transport error whose status code
\* is neither 200 nor 500 rejects the operation with the unexpected-status
\* message.
C6_AsStated ==
    \A o \in Ops :
        (pipe[o].stage = "done" /\ IsUnexpectedStatus(pipe[o].received))
        => outcome[o] = Rejected(Str(UnexpectedStatusText(pipe[o].received)))

\* C6, amended: every response without transport error, with a non-empty
\* body and a status code that is neither 200 nor 500 rejects the operation
\* with "Unexpected HTTP response code: {code} {message}. Please retry
\* after a few minutes. ..." (a response with an empty body is rejected
\* as an invalid response whatever its code).
C6_UnexpectedStatus ==
    \A o \in Ops :
        (/\ pipe[o].stage = "done"
         /\ IsUnexpectedStatus(pipe[o].received)
         /\ ~isEmpty(pipe[o].received.entity))
        => outcome[o] = Rejected(Str(UnexpectedStatusText(pipe[o].received)))

C6_Witness ==
    \E o \in Ops :
        /\ call[o].kind = "createNewApp"
        /\ pipe[o].stage = "done"
        /\ outcome[o] = Rejected(Str(
             "Unexpected HTTP response code: 404 Not Found. Please retry "
             \o "after a few minutes. If the problem persists, please "
             \o "consult https://mxforum.mendix.com"))

\* C7: a response for which the transport reports an error never passes
\* status classification (it is not handed on, not modified), and once
\* handled the operation is rejected with "Connection error: " followed by
\* the error, whatever status and body the response carries.
C7_TransportErrorFirst ==
    \A o \in Ops :
        (pipe[o].stage # "idle" /\ Truthy(pipe[o].received.error))
        => /\ pipe[o].stage \in {"response", "done"}
           /\ pipe[o].response = pipe[o].received
           /\ pipe[o].stage = "done"
                => outcome[o] = Rejected(Str("Connection error: Error: "
                                   \o pipe[o].received.error.message.text))

C7_Witness ==
    \E o \in Ops :
        /\ pipe[o].stage = "done"
        /\ Truthy(pipe[o].received.error)
        /\ pipe[o].received.status = Status(200)
        /\ pipe[o].received.entity = Xml([NoElems EXCEPT !.Result = <<"J1">>])
        /\ outcome[o] = Rejected(Str(
             "Connection error: Error: getaddrinfo ENOTFOUND"))

\* C8: a response without transport error whose status or body is empty is
\* rejected by status classification with "Error: invalid HTTP response",
\* whatever its status code; it never reaches the next stage.
C8_InvalidResponse ==
    \A o \in Ops :
        (/\ pipe[o].stage # "idle"
         /\ ~Truthy(pipe[o].received.error)
         /\ isEmpty(pipe[o].received.status) \/ isEmpty(pipe[o].received.entity))
        => /\ pipe[o].stage \in {"response", "done"}
           /\ pipe[o].stage = "done"
                => outcome[o] = Rejected(Str("Error: invalid HTTP response"))

C8_Witness ==
    \E o \in Ops :
        /\ pipe[o].stage = "done"
        /\ pipe[o].received.status = Status(200)
        /\ pipe[o].received.entity = Str("")
        /\ ~Truthy(pipe[o].received.error)
        /\ outcome[o] = Rejected(Str("Error: invalid HTTP response"))

\* No transport error, status and body non-empty, status code 200.
PassesClassification(r) ==
    /\ ~Truthy(r.error)
    /\ ~isEmpty(r.status)
    /\ ~isEmpty(r.entity)
    /\ r.status.code = 200

\* C9: the status-classification step hands a response on exactly when it
\* has no transport error, a non-empty status and body and status code 200,
\* and then the response handed on is the response received and nothing is
\* settled; in every other case the step rejects the operation and the
\* response reaches no further stage.
C9_PassThrough ==
    [][\A o \in Ops :
         (pipe[o].stage = "response" /\ pipe'[o].stage # "response")
         => IF PassesClassification(pipe[o].received)
            THEN /\ pipe'[o].stage = "success"
                 /\ pipe'[o].response = pipe[o].received
                 /\ outcome'[o] = outcome[o]
            ELSE /\ pipe'[o].stage = "done"
                 /\ outcome'[o].state = "rejected"]_vars

C9_Witness ==
    \E o \in Ops :
        /\ pipe[o].stage = "success"
        /\ pipe[o].client = "_parseJobStatus"
        /\ pipe[o].received.status = Status(200)
        /\ pipe[o].response = pipe[o].received

\* Nothing of a poll loop exists for the operation.
NoPolling(o) ==
    /\ timers[o] = <<>>
    /\ polls[o] = 0
    /\ net[o] = <<>>
    /\ awaited[o] = Pending

\* The submission response in the chain has passed status classification
\* and the result-extraction step has run on it.
Extracted(o) ==
    /\ pipe[o].client = "_parseResult"
    /\ pipe[o].stage \in {"entity", "done"}
    /\ PassesClassification(pipe[o].received)

ResultOf(r) == r.entity.elems.Result

\* What C10 says of an extracted submission response, `empty` telling
\* which Result arrays count as "no Result".
ResultExtraction(o, empty) ==
    LET r == pipe[o].received
    IN  IF ~r.entity.wellFormed
        THEN /\ pipe[o].stage = "done"
             /\ outcome[o].state = "rejected"
             /\ outcome[o].value.type = "ParseError"
             /\ NoPolling(o)
        ELSE IF ResultOf(r) \in empty
        THEN /\ pipe[o].stage = "done"
             /\ outcome[o].state = "rejected"
             /\ outcome[o].value.type = "EmptyError"
             /\ NoPolling(o)
        ELSE /\ pipe[o].response = [r EXCEPT !.entity = Str(ResultOf(r)[1])]
             /\ outcome[o].state = "pending"
             /\ (pipe[o].stage = "done" /\ thrown[o] = Null)
                  => Len(timers[o]) + polls[o] = 1

\* C10 as stated: a well-formed body containing a Result node has its
\* first Result value put in place of the body; only a body with no Result
\* node fails with EmptyError.
C10_AsStated ==
    \A o \in Ops : Extracted(o) => ResultExtraction(o, {<<>>})

\* C10, amended: on a submission response with status 200 and non-empty
\* body, a well-formed body whose first Result has non-empty text gets
\* that text in place of the body and polling starts; a well-formed body
\* with no Result node or with an empty first Result fails with EmptyError;
\* a body that is not well-formed fails with ParseError; in both failure
\* cases no poll timer is armed and no status request is issued.
C10_ResultExtraction ==
    \A o \in Ops : Extracted(o) => ResultExtraction(o, {<<>>, <<"">>})

C10_Witness ==
    \E o \in Ops :
        /\ pipe[o].client = "_parseResult"
        /\ pipe[o].stage = "entity"
        /\ pipe[o].received.entity = Xml([NoElems EXCEPT !.Result = <<"J2">>])
        /\ pipe[o].response.entity = Str("J2")

\* A status response that passed classification and parsed, and that the
\* done callback has handled.
StatusHandled(o) ==
    /\ pipe[o].client = "_parseJobStatus"
    /\ pipe[o].stage = "done"
    /\ PassesClassification(pipe[o].received)
    /\ pipe[o].received.entity.wellFormed

\* C11 as stated: a 200 status response whose well-formed body has no State
\* element fails the poll (the operation is rejected, no timer is armed and
\* no request is in flight); a body with State Running or Completed that
\* lacks other elements does not fail it.
C11_AsStated ==
    \A o \in Ops :
        StatusHandled(o)
        => IF LastElems(o).State = <<>>
           THEN /\ awaited[o].state = "rejected"
                /\ outcome[o].state = "rejected"
                /\ timers[o] = <<>>
                /\ net[o] = <<>>
           ELSE LastElems(o).State[1] \in {"Running", "Completed"}
                    => awaited[o].state # "rejected"

Present(v) == v # Undefined

\* C12 as stated, for the job results delivered to a caller: a job result
\* the poll loop resolves with has state Completed, a result and no error
\* message; a poll loop that ends on Failed rejects with an error message
\* that is present; createNewApp never resolves with an absent id.
C12_AsStated ==
    \A o \in Ops :
        /\ awaited[o].state = "fulfilled"
             => /\ awaited[o].value.state = Str("Completed")
                /\ Present(awaited[o].value.result)
                /\ ~Present(awaited[o].value.errorMessage)
        /\ (/\ awaited[o].state = "rejected"
            /\ observed[o] # <<>>
            /\ Last(observed[o]) = Str("Failed"))
             => Present(awaited[o].value) /\ Present(outcome[o].value)
        /\ (outcome[o].state = "fulfilled" /\ call[o].kind = "createNewApp")
             => Present(outcome[o].value.id)

\* The poll loop of the operation has observed a terminal state or has
\* been aborted by an error of a status request.
LoopEnded(o) ==
    \/ /\ observed[o] # <<>>
       /\ Last(observed[o]) \in {Str("Completed"), Str("Failed")}
    \/ /\ pipe[o].client = "_parseJobStatus"
       /\ pipe[o].stage = "done"
       /\ PollError(pipe[o].received)

\* C13: the poll loop starts with nothing observed, its promise pending
\* and one timer armed; once it has observed Completed or Failed or was
\* aborted by an error, its promise is settled and stays as it is, no timer
\* is armed or gets armed, no request is in flight or gets issued; and a
\* settled promise of the caller never changes.
C13_TerminalAbsorbing ==
    [][\A o \in Ops :
         /\ (pc[o] # "awaiting" /\ pc'[o] = "awaiting")
              => /\ observed'[o] = <<>>
                 /\ awaited'[o] = Pending
                 /\ Len(timers'[o]) = 1
                 /\ polls'[o] = 0
         /\ LoopEnded(o)
              => /\ awaited[o].state # "pending"
                 /\ awaited'[o] = awaited[o]
                 /\ timers[o] = <<>> /\ timers'[o] = <<>>
                 /\ net[o] = <<>> /\ net'[o] = <<>>
                 /\ polls'[o] = polls[o]
                 /\ sent'[o] = sent[o]
                 /\ observed'[o] = observed[o]
         /\ outcome[o].state # "pending" => outcome'[o] = outcome[o]]_vars

C13_Witness ==
    \E o \in Ops :
        /\ observed[o] = <<Str("Running"), Str("Completed")>>
        /\ pc[o] = "settled"
        /\ outcome[o].state = "fulfilled"
        /\ call[o].kind = "createOnlineWorkingCopy"

\* C14: in OnlineWorkingCopy.commit no request is issued while
\* closeConnection has not called its success continuation; when it calls
\* its error continuation the commit is rejected with that error and no
\* request, timer or poll exists then or later; every request is issued with
\* the connection closed, and a commit that resolved has it closed.
C14_CloseBeforeCommit ==
    \A o \in Ops :
        call[o].kind = "commit"
        => /\ pc[o] = "closing"
                => /\ sent[o] = 0
                   /\ outcome[o] = Pending
                   /\ conn[o] = "open"
           /\ sent[o] > 0 => conn[o] = "closed"
           /\ conn[o] = "open" => NoPolling(o) /\ sent[o] = 0
           /\ (outcome[o].state = "rejected"
               /\ outcome[o].value \in CollaboratorErrors)
                => NoPolling(o) /\ sent[o] = 0 /\ conn[o] = "open"
           /\ outcome[o].state = "fulfilled" => conn[o] = "closed"

C14_Witness ==
    \E o \in Ops :
        /\ call[o].kind = "commit"
        /\ outcome[o].state = "fulfilled"
        /\ outcome[o].value.type = "Revision"
        /\ conn[o] = "closed"
        /\ sent[o] = 2

WorkingCopyIsEmpty ==
    Str("Working copy is empty or does not contain referral to project")

InvalidBaseRevision(n) == Str("Invalid base revision " \o ToString(n))

\* The working copy is not null and refers to a project.
HasProject(workingCopy) ==
    /\ workingCopy.type = "OnlineWorkingCopy"
    /\ ProjectOf(workingCopy).type = "Project"

\* C15 as stated: every call with baseRevision < -1 is rejected with
\* "Invalid base revision {baseRevision}", every call with a null working
\* copy or one without project with the 'working copy is empty' message,
\* no request being issued; every call with baseRevision >= -1 passes
\* validation.
C15_AsStated ==
    \A o \in Ops :
        call[o].kind = "commitToTeamServer"
        => /\ call[o].baseRevision < -1
                => /\ outcome[o] = Rejected(InvalidBaseRevision(call[o].baseRevision))
                   /\ sent[o] = 0
           /\ ~HasProject(call[o].workingCopy)
                => /\ outcome[o] = Rejected(WorkingCopyIsEmpty)
                   /\ sent[o] = 0
           /\ call[o].baseRevision >= -1
                => /\ outcome[o] # Rejected(WorkingCopyIsEmpty)
                   /\ sent[o] >= 1 \/ thrown[o] # Null

\* C15, amended: a call with a null working copy or one without project
\* is rejected with the 'working copy is empty' message whatever its base
\* revision; a call with a working copy that has a project is rejected with
\* "Invalid base revision {baseRevision}" when baseRevision < -1, and
\* passes validation (the submission is built and sent) when baseRevision
\* is -1 or >= 0.  A rejected call issues no request and starts no poll.
C15_CommitValidation ==
    \A o \in Ops :
        call[o].kind = "commitToTeamServer"
        => IF ~HasProject(call[o].workingCopy)
           THEN /\ outcome[o] = Rejected(WorkingCopyIsEmpty)
                /\ sent[o] = 0
                /\ NoPolling(o)
                /\ thrown[o] = Null
           ELSE IF call[o].baseRevision < -1
           THEN /\ outcome[o] = Rejected(InvalidBaseRevision(call[o].baseRevision))
                /\ sent[o] = 0
                /\ NoPolling(o)
                /\ thrown[o] = Null
           ELSE /\ outcome[o] # Rejected(WorkingCopyIsEmpty)
                /\ outcome[o] # Rejected(InvalidBaseRevision(call[o].baseRevision))
                /\ sent[o] >= 1 \/ thrown[o] # Null

C15_Witness ==
    \E o \in Ops :
        /\ call[o].kind = "commitToTeamServer"
        /\ call[o].workingCopy = GoodWorkingCopy
        /\ call[o].baseRevision = -2
        /\ outcome[o] = Rejected(Str("Invalid base revision -2"))
        /\ sent[o] = 0

\* C16 as stated: OnlineWorkingCopy.commit with baseRevision < -1 fails
\* with the validation error, no request issued and the working copy's
\* connection left open as it was.
C16_AsStated ==
    \A o \in Ops :
        (call[o].kind = "commit" /\ call[o].baseRevision < -1)
        => /\ conn[o] = "open"
           /\ sent[o] = 0
           /\ outcome[o].state # "pending"
                => outcome[o] = Rejected(InvalidBaseRevision(call[o].baseRevision))

\* The credentials name a user and hold an API key or a password with an
\* OpenID provider.
CompleteCredentials(args) ==
    /\ Truthy(args.username)
    /\ Truthy(args.apikey) \/ (Truthy(args.password) /\ Truthy(args.openid))

\* C17 as stated: the constructor returns a client exactly when the
\* arguments hold a username with an API key or a username with a password
\* and an OpenID provider; for every other combination it throws
\* "Incomplete credentials" and has created no client.
C17_AsStated ==
    client # NoClient
    => IF CompleteCredentials(client.args)
       THEN client.type = "MendixSdkClient" /\ client.thrown = Null
       ELSE /\ client.thrown = ErrorObject("Incomplete credentials")
            /\ client.created = <<>>

\* C18 as stated: with a null username the constructor throws "Incomplete
\* credentials", whatever apikey, password and openid are.
C18_AsStated ==
    (client # NoClient /\ client.args.username = Null)
    => client.thrown = ErrorObject("Incomplete credentials")

\* The job id the poll loop of the operation holds: that of its armed
\* timer, of its status request in flight or of the status response in the
\* chain.
PolledJob(o) ==
    IF timers[o] # <<>>
    THEN Head(timers[o]).jobId
    ELSE IF StatusInFlight(o) > 0
    THEN Head(SelectSeq(net[o], LAMBDA m : m.client = "_parseJobStatus")).jobId
    ELSE IF pipe[o].client = "_parseJobStatus"
    THEN pipe[o].jobId
    ELSE Undefined

\* C19: in createNewApp(n, s), with or without s, the poll loop starts on
\* the job id j extracted from the submission response, every status request
\* is rendered for j (j stays the loop's job id unless the timer callback
\* dies of an exception), and once the loop has ended on Completed with
\* Result p the caller's promise, when settled, is fulfilled with the
\* Project whose id is p and whose name is n.
C19_CreateNewApp ==
    [][\A o \in Ops :
         call'[o].kind = "createNewApp"
         => /\ (pc[o] # "awaiting" /\ pc'[o] = "awaiting")
                 => (PolledJob(o))' = Str(ResultOf(pipe[o].received)[1])
            /\ (PolledJob(o) # Undefined /\ pc'[o] # "uncaught")
                 => (PolledJob(o))' = PolledJob(o)
            /\ polls'[o] > polls[o]
                 => Last(net'[o]).request.entity.data
                        = <<<<"JobId", PolledJob(o)>>>>
            /\ (/\ observed'[o] # <<>>
                /\ Last(observed'[o]) = Str("Completed")
                /\ (LastElems(o))'.Result # <<>>
                /\ outcome'[o].state # "pending")
                 => outcome'[o] = Fulfilled(Project(
                                     Str((LastElems(o))'.Result[1]),
                                     call'[o].projectName))]_vars

C19_Witness ==
    \E o \in Ops :
        /\ call[o] = [kind |-> "createNewApp", projectName |-> Str("Bar"),
                      projectSummary |-> Undefined]
        /\ pipe[o].jobId = Str("J2")
        /\ observed[o] = <<Str("Running"), Str("Completed")>>
        /\ outcome[o] = Fulfilled(Project(Str("3"), Str("Bar")))

\* C20 as stated: no operation throws out of its call and no timer
\* callback raises an exception nothing catches; every failure rejects the
\* promise returned to the caller.
C20_AsStated ==
    \A o \in Ops :
        /\ thrown[o] = Null
        /\ pc[o] \notin {"thrown", "uncaught"}

\* The message the error table gives for an extraction error, selected by
\* the kind of the error.
Translation(error) ==
    IF error.type = "ParseError"
    THEN Str("Response parsing error: " \o Render(error.message)
             \o ". Please consult https://mxforum.mendix.com/")
    ELSE Str("Empty response error: " \o Render(error.message)
             \o ". Please consult https://mxforum.mendix.com/")

\* C21 as stated: when the extraction of the Result from a submission
\* response fails with ParseError or EmptyError, the caller's promise is
\* rejected with the translated message "Response parsing error: ..." or
\* "Empty response error: ...", selected by the kind of the error.
C21_AsStated ==
    \A o \in Ops :
        LET p == _parseAndQuery(pipe[o].received.entity, "$..Result[0]")
        IN  (Extracted(o) /\ p.state = "rejected")
                => outcome[o] = Rejected(Translation(p.value))

\* Everything an operation keeps for itself.
OpState(o) ==
    <<pc[o], call[o], net[o], pipe[o], timers[o], polls[o], sent[o],
      observed[o], awaited[o], outcome[o], conn[o], thrown[o]>>

\* The step changes the state of at most one operation.
OneOperationSteps == \E o \in Ops : \A p \in Ops \ {o} : OpState(p)' = OpState(p)

\* C22 as stated: operations running concurrently on one client share no
\* mutable state: a step of one operation leaves the state of the other
\* operation and everything the client holds (its configuration, its XML
\* parser) as they were.
C22_AsStated ==
    [][OneOperationSteps /\ client' = client /\ xmlParser' = xmlParser]_vars

\* The operation's step hands the body of its response to _parseAndQuery:
\* the error-code interceptor on status 500, _parseResult on every body.
Parses(o) ==
    \/ /\ pipe[o].stage = "response"
       /\ pipe'[o].stage # "response"
       /\ ~Truthy(pipe[o].response.error)
       /\ ~isEmpty(pipe[o].response.status)
       /\ ~isEmpty(pipe[o].response.entity)
       /\ pipe[o].response.status.code = 500
    \/ /\ pipe[o].stage = "success"
       /\ pipe'[o].stage # "success"
       /\ pipe[o].client = "_parseResult"
       /\ ~isEmpty(pipe[o].response.entity)

\* C22, amended: a step of one operation leaves the state of the other
\* operation and the client's configuration as they were.  The one mutable
\* object the operations share is the client's XML parser: it changes only
\* in a step that extracts from a response body, and after such a step it
\* holds what a new parser would hold after parsing that body, whatever an
\* earlier extraction of this or of another operation left in it.
C22_SharedState ==
    [][/\ OneOperationSteps
       /\ client' = client
       /\ \A o \in Ops :
             Parses(o) => xmlParser' = Parser_parseString(Parser, pipe[o].response.entity)
       /\ xmlParser' # xmlParser => \E o \in Ops : Parses(o)]_vars

\* Both operations are polling, each for its own job, and the parser holds
\* the tree of a body it parsed.
C22_Witness ==
    /\ \A o \in Ops : pc[o] = "awaiting" /\ polls[o] >= 1
    /\ PolledJob(1) # PolledJob(2)
    /\ xmlParser.resultObject # Null

\* C23: a status request is issued only in the step in which an armed timer
\* of the operation expires, the first one after the submission included,
\* and every timer the loop arms has the delay 1000 ms, whatever the number
\* of status requests made before.
C23_FixedDelay ==
    [][\A o \in Ops :
          /\ (polls'[o] # polls[o] \/ (StatusInFlight(o))' > StatusInFlight(o))
                => /\ timers[o] # <<>>
                   /\ timers'[o] = Tail(timers[o])
                   /\ polls'[o] = polls[o] + 1
                   /\ (StatusInFlight(o))' = StatusInFlight(o) + 1
          /\ \A i \in 1..Len(timers'[o]) : timers'[o][i].delay = 1000]_vars

\* The third timer of a loop is armed, after two status requests.
C23_Witness ==
    \E o \in Ops : polls[o] = 2 /\ timers[o] # <<>> /\ Head(timers[o]).delay = 1000

Unextractable(r) ==
    /\ ~Truthy(r.error)
    /\ ~isEmpty(r.status)
    /\ ~isEmpty(r.entity)
    /\ r.status.code = 500
    /\ (r.entity.wellFormed => r.entity.elems.faultstring \in {<<>>, <<"">>})

\* The error the extraction of the fault string ends with.
ExtractionError(r) ==
    IF ~r.entity.wellFormed
    THEN ParseError(ErrorObject("Non-whitespace before first tag."))
    ELSE EmptyError("Query $..faultstring[0] on "
             \o (IF r.entity.elems.faultstring = <<>> THEN "undefined" ELSE "")
             \o " does not give any result")

\* C25: a response with status 500 and a non-empty body from which no
\* fault string can be extracted rejects the operation with the extraction
\* error itself, a ParseError for a body that is not well-formed and an
\* EmptyError for a well-formed one, with no context put before it; the
\* operation is settled by that one rejection and its poll loop, if the
\* response answered a status request, is rejected with the same error and
\* has ended.
C25_UnextractableFault ==
    \A o \in Ops :
        (pipe[o].stage = "done" /\ Unextractable(pipe[o].received))
        => /\ outcome[o] = Rejected(ExtractionError(pipe[o].received))
           /\ pc[o] = "settled"
           /\ pipe[o].client = "_parseJobStatus"
                => /\ awaited[o] = outcome[o]
                   /\ timers[o] = <<>> /\ net[o] = <<>>

\* A status request answered with 500 and a well-formed body without
\* faultstring.
C25_Witness ==
    \E o \in Ops :
        /\ pipe[o].stage = "done"
        /\ pipe[o].client = "_parseJobStatus"
        /\ Unextractable(pipe[o].received)
        /\ pipe[o].received.entity.wellFormed
        /\ outcome[o].state = "rejected"
        /\ outcome[o].value.type = "EmptyError"

\* The template a request of the operation is rendered from: that of the
\* operation called for a submission, the job-status template for a poll.
TemplateOf(o, apiClient) ==
    CASE apiClient = "_parseJobStatus" -> RetrieveJobStatusXml
      [] call[o].kind = "createNewApp" -> CreateNewAppXml
      [] call[o].kind = "createOnlineWorkingCopy" -> CreateOnlineWorkingCopyXml
      [] OTHER -> CommitWorkingCopyChangesXml

\* Everything of a request but its body.
Envelope(request) ==
    [path |-> request.path, method |-> request.method,
     headers |-> request.headers, mixin |-> request.mixin]

\* C26: every request handed to the transport, a submission of any of the
\* operations or a status poll, is a POST to the client's projects-API
\* endpoint followed by the fixed service path, with the one header
\* Content-Type: text/xml;charset=UTF-8, and its body is the rendering of
\* the template of its operation; requests differ in nothing but the body.
C26_UniformRequest ==
    \A o \in Ops :
        \A i \in 1..Len(net[o]) :
            /\ Envelope(net[o][i].request) =
                  [path |-> client.platform.projectsApiEndpoint
                              \o "/ws/ProjectsAPI/9/soap1",
                   method |-> "POST",
                   headers |-> [ContentType |-> "text/xml;charset=UTF-8"],
                   mixin |-> {}]
            /\ net[o][i].request.entity.template = TemplateOf(o, net[o][i].client)

\* A submission of one operation and a status request of the other are
\* with the transport at the same time.
C26_Witness ==
    /\ net[1] # <<>> /\ Head(net[1]).client = "_parseResult"
    /\ call[1].kind = "commit"
    /\ net[2] # <<>> /\ Head(net[2]).client = "_parseJobStatus"
    /\ Head(net[2]).request.path =
          "https://projects.example.com/ws/ProjectsAPI/9/soap1"

\* The working copy createOnlineWorkingCopy resolves with for the working
\* copy id wcId: its source revision is the revision given, or revision -1
\* on the main line of the project when none was given.
ExposedWorkingCopy(o, wcId) ==
    OnlineWorkingCopy(wcId,
        IF call[o].revision \in {Null, Undefined}
        THEN Revision(Num(-1), Branch(call[o].project, Null))
        ELSE call[o].revision,
        IModel(wcId))

\* C27: in createOnlineWorkingCopy, openWorkingCopy is called only in a
\* step taken after the poll loop has ended on Completed (nothing is
\* settled, no timer is armed and no request is in flight then), for the
\* working copy id that is the Result of that status response; the call
\* ends in one step that settles the operation, with the error of the
\* error continuation or with the working copy carrying that id and the
\* given revision (revision -1 on the main line when none was given);
\* a settled operation calls nothing further, and the operation is
\* fulfilled in no other way.
C27_OpenAfterCompleted ==
    [][\A o \in Ops :
          /\ (pc'[o] = "opening" /\ pc[o] # "opening")
                => /\ call[o].kind = "createOnlineWorkingCopy"
                   /\ pc[o] = "awaiting"
                   /\ JobStateLookup(Last(observed[o])) = JobState.Completed
                   /\ awaited[o].state = "fulfilled"
                   /\ awaited[o].value.result = First(LastElems(o).Result)
                   /\ outcome[o] = Pending
                   /\ timers[o] = <<>> /\ net[o] = <<>>
          /\ (pc[o] = "opening" /\ pc'[o] # "opening")
                => /\ pc'[o] = "settled"
                   /\ \/ outcome'[o] \in {Rejected(e) : e \in CollaboratorErrors}
                      \/ outcome'[o] = Fulfilled(ExposedWorkingCopy(o,
                                           First(LastElems(o).Result)))
          /\ (call[o].kind = "createOnlineWorkingCopy"
                /\ outcome'[o].state = "fulfilled" /\ outcome[o].state # "fulfilled")
                => pc[o] = "opening"
          /\ pc[o] = "settled" => pc'[o] = "settled"]_vars

\* A working copy exposed for a given revision.
C27_Witness ==
    \E o \in Ops :
        /\ call[o].kind = "createOnlineWorkingCopy"
        /\ call[o].revision = Revision(Num(3), MainLine)
        /\ outcome[o] = Fulfilled(OnlineWorkingCopy(Str("app-42"),
                            Revision(Num(3), MainLine), IModel(Str("app-42"))))

\* C28 as stated: when the job of a commit has completed and the operation
\* is settled, a result that does not parse as an integer has rejected it
\* with the "returned job id is not a number" message, and a result that
\* parses to num has resolved it with Revision(num, Branch(project,
\* branchName)).
C28_AsStated ==
    \A o \in Ops :
        (/\ call[o].kind \in {"commitToTeamServer", "commit"}
         /\ awaited[o].state = "fulfilled"
         /\ pc[o] = "settled")
        => LET num == parseInt(awaited[o].value.result)
           IN  IF num = NaN
               THEN outcome[o] = Rejected(Str(
                        "Failed to commit changes to team server: revision NaN"
                        \o " on branch " \o Render(call[o].branchName)
                        \o ". Reason: returned job id is not a number."))
               ELSE outcome[o] = Fulfilled(Revision(num,
                        Branch(ProjectOf(call[o].workingCopy), call[o].branchName)))

\* The job ids the poll loop of the operation holds: those of its armed
\* timers, of its status requests in flight and of the status response in
\* the chain.
LoopJobs(o) ==
    {timers[o][i].jobId : i \in 1..Len(timers[o])}
    \cup {net[o][i].jobId :
            i \in {k \in 1..Len(net[o]) : net[o][k].client = "_parseJobStatus"}}
    \cup (IF pipe[o].client = "_parseJobStatus" THEN {pipe[o].jobId} ELSE {})

\* C29: in every operation the first poll timer is armed in the step that
\* follows a submission response classified as 200 from whose well-formed
\* body a non-empty Result was extracted, and it is armed for that Result;
\* no status request is issued while no timer has been armed; the loop
\* never holds another job id afterwards, and every status request is the
\* job-status template rendered with that value as JobId.
C29_PollAfterAccepted ==
    [][\A o \in Ops :
          /\ (Len(timers[o]) + polls[o] = 0 /\ Len(timers'[o]) + polls'[o] > 0)
                => /\ pipe[o].client = "_parseResult"
                   /\ PassesClassification(pipe[o].received)
                   /\ pipe[o].received.entity.wellFormed
                   /\ ResultOf(pipe[o].received) \notin {<<>>, <<"">>}
                   /\ polls'[o] = 0
                   /\ timers'[o] = <<[jobId |-> Str(ResultOf(pipe[o].received)[1]),
                                       delay |-> 1000]>>
          /\ LoopJobs(o) # {} => (LoopJobs(o))' \subseteq LoopJobs(o)
          /\ polls'[o] > polls[o]
                => /\ LoopJobs(o) = {Last(net'[o]).jobId}
                   /\ Last(net'[o]).request.entity =
                         [template |-> RetrieveJobStatusXml,
                          data |-> <<<<"JobId", Last(net'[o]).jobId>>>>]]_vars

\* The second status request of a commit is in flight, for the job id the
\* submission was answered with.
C29_Witness ==
    \E o \in Ops :
        /\ call[o].kind = "commitToTeamServer"
        /\ polls[o] = 2
        /\ StatusInFlight(o) = 1
        /\ Head(net[o]).request.entity.data = <<<<"JobId", Str("J2")>>>>

\* The loop has been followed through MaxPolls status requests and the job
\* has reported no terminal state yet: its next timer is armed.
StillRunning(o) == polls[o] = MaxPolls /\ Len(timers[o]) = 1

\* C30 as stated: when timers fire and requests are answered, an operation
\* whose poll loop has started is eventually settled, unless the job has
\* reported no terminal state and no request has failed as far as the loop
\* is followed; the loop ends for no other reason.
C30_AsStated ==
    \A o \in Ops :
        (pc[o] = "awaiting") ~> (outcome[o].state # "pending" \/ StillRunning(o))

\* The step is the done callback handling a status response that was
\* classified as 200 and whose State has a text other than "Completed" and
\* "Failed".
HandlesOtherState(o) ==
    /\ observed'[o] # observed[o]
    /\ PassesClassification(pipe[o].received)
    /\ LastElems(o).State # <<>>
    /\ LastElems(o).State[1] \notin {"Completed", "Failed"}

\* C31: the step that handles a 200 status response whose State is any text
\* other than exactly "Completed" or "Failed" (an unknown name, a name in
\* another case, a number written as text) neither resolves nor rejects the
\* poll loop or the operation, and arms exactly one further timer, for the
\* same job.
C31_OtherStatesRepoll ==
    [][\A o \in Ops :
          HandlesOtherState(o)
          => /\ awaited'[o] = Pending
             /\ outcome'[o] = Pending
             /\ pc'[o] = "awaiting"
             /\ timers'[o] = <<[jobId |-> pipe[o].jobId, delay |-> 1000]>>
             /\ net'[o] = <<>>]_vars

\* The job has reported "1", then "completed", then "Queued"; the operation
\* is not settled and the next poll is armed.
C31_Witness ==
    \E o \in Ops :
        /\ observed[o] = <<Str("1"), Str("completed"), Str("Queued")>>
        /\ outcome[o] = Pending
        /\ Len(timers[o]) = 1

\* What the operation, run by itself, is settled with once the response r
\* is the last one it has received: the rejection of the interceptor chain,
\* the error message of a failed job, or what the operation makes of the
\* result of a completed job (for createOnlineWorkingCopy, after the
\* collaborator's answer).  A response that settles nothing gives no
\* outcome.
SettledAlone(o, r) ==
    LET classified == _createHttpErrorCodeInterceptor(ContextOf(o), r)
        parsed == IF pipe[o].client = "_parseJobStatus"
                  THEN _parseJobStatus(r) ELSE _parseResult(r)
        job == parsed.value.entity
    IN  IF classified.state = "rejected" \/ Truthy(r.error)
        THEN {Rejected(classified.value)}
        ELSE IF parsed.state = "rejected"
        THEN {Rejected(parsed.value)}
        ELSE IF pipe[o].client = "_parseResult"
        THEN {}
        ELSE IF JobStateLookup(job.state) = JobState.Failed
        THEN {Rejected(job.errorMessage)}
        ELSE IF JobStateLookup(job.state) # JobState.Completed
        THEN {}
        ELSE CASE call[o].kind = "createNewApp" ->
                    {Fulfilled(Project(job.result, call[o].projectName))}
               [] call[o].kind = "createOnlineWorkingCopy" ->
                    {Fulfilled(ExposedWorkingCopy(o, job.result))}
                    \cup {Rejected(e) : e \in CollaboratorErrors}
               [] OTHER ->
                    {Fulfilled(Revision(parseInt(job.result),
                        Branch(ProjectOf(call[o].workingCopy), call[o].branchName)))}

\* C32: with two operations in flight on one client, every step (a timer,
\* a request, a response, a parsing step) changes the state of one
\* operation only, so a response to one operation never settles or alters
\* the other; and an operation that has received a response and is settled
\* is settled with the outcome its own call and the responses it received
\* give when it runs by itself, whatever the other operation has done.
C32_Independence ==
    [][/\ OneOperationSteps
       /\ \A o \in Ops :
             /\ outcome'[o] # Pending => pc'[o] = "settled"
             /\ (pc'[o] = "settled" /\ pipe'[o].client # "")
                   => outcome'[o] \in (SettledAlone(o, pipe[o].received))']_vars

\* Both operations have polled, each for its own job, and are settled
\* differently: the first with its project, the second with the error
\* message of its failed job.
C32_Witness ==
    /\ polls[1] >= 2 /\ polls[2] >= 1
    /\ pipe[1].jobId # pipe[2].jobId
    /\ outcome[1] = Fulfilled(Project(Str("3"), Str("Foo")))
    /\ outcome[2] = Rejected(Str("No such revision"))

====
